---- MODULE Spec2Model ----
(***************************************************************************)
(* Model of the EPUB reader's package resolution and navigation core:      *)
(* EpubDocument::open with its TOC discovery (src/epub/mod.rs), the path   *)
(* helpers, and the Navigator cursor state machine (src/navigation.rs).    *)
(*                                                                         *)
(* Strings whose characters matter (paths, hrefs) are sequences of         *)
(* one-character strings; identifiers and labels, which the code only      *)
(* compares or tests for emptiness, are TLA+ strings.                      *)
(***************************************************************************)
EXTENDS Integers, Sequences, FiniteSets, TLC

\* ------------------------------------------------------------------------
\* Bounds of the model
\* ------------------------------------------------------------------------
\* longest spine (number of itemref elements) of the packages explored
MaxSpine == 3
\* longest run of consecutive next() or prev() calls that is tracked: one
\* call more than the longest spine has chapters
MaxRun == MaxSpine + 1
\* longest path, in characters, the path helpers are called on by themselves
MaxPathLen == 5
\* most leading ".." components of the longer references tried
MaxUp == 3
\* most Navigators created from one document
MaxNavigators == 2

\* ------------------------------------------------------------------------
\* Character strings
\* ------------------------------------------------------------------------
SLASH == "/"
Empty == << >>

\* Option<T>: None is the empty sequence, Some(x) the one-element sequence
None == << >>
Some(x) == << x >>
IsSome(o) == Len(o) > 0
Unwrap(o) == o[1]

\* Result<T, EpubError>: the error carries the variant's name and its payload
Ok(v) == [ok |-> TRUE, val |-> v, err |-> "", arg |-> << >>]
Err(e, a) == [ok |-> FALSE, val |-> << >>, err |-> e, arg |-> a]

StartsWith(s, c) == Len(s) > 0 /\ s[1] = c

\* str::split(c): the pieces between occurrences of c; always at least one
\* piece, pieces may be empty.
RECURSIVE SplitFrom(_, _, _, _)
SplitFrom(s, c, i, cur) ==
    IF i > Len(s) THEN << cur >>
    ELSE IF s[i] = c THEN << cur >> \o SplitFrom(s, c, i + 1, Empty)
    ELSE SplitFrom(s, c, i + 1, Append(cur, s[i]))

Split(s, c) == SplitFrom(s, c, 1, Empty)

\* [&str]::join(sep)
RECURSIVE Join(_, _)
Join(parts, sep) ==
    IF Len(parts) = 0 THEN Empty
    ELSE IF Len(parts) = 1 THEN parts[1]
    ELSE parts[1] \o sep \o Join(Tail(parts), sep)

\* str::replace("//", "/"): non-overlapping matches, left to right
RECURSIVE ReplaceDoubleSlash(_)
ReplaceDoubleSlash(s) ==
    IF Len(s) < 2 THEN s
    ELSE IF s[1] = SLASH /\ s[2] = SLASH
         THEN << SLASH >> \o ReplaceDoubleSlash(SubSeq(s, 3, Len(s)))
         ELSE << s[1] >> \o ReplaceDoubleSlash(Tail(s))

\* str::replace('\\', "/")
ReplaceBackslash(s) == [i \in 1..Len(s) |-> IF s[i] = "\\" THEN SLASH ELSE s[i]]

\* str::trim_start_matches('/')
RECURSIVE TrimStartSlashes(_)
TrimStartSlashes(s) ==
    IF StartsWith(s, SLASH) THEN TrimStartSlashes(Tail(s)) ELSE s

DOT == << "." >>
DOTDOT == << ".", "." >>

\* ------------------------------------------------------------------------
\* Path helpers of src/epub/mod.rs
\* ------------------------------------------------------------------------
\* the component loop of normalize_path_simple
RECURSIVE NormalizeComponents(_, _)
NormalizeComponents(parts, components) ==
    IF Len(parts) = 0 THEN components
    ELSE LET component == Head(parts) IN
         IF component = DOT \/ component = Empty
         THEN NormalizeComponents(Tail(parts), components)
         ELSE IF component = DOTDOT
         THEN IF Len(components) > 0 /\ components[Len(components)] # DOTDOT
              THEN NormalizeComponents(Tail(parts),
                                       SubSeq(components, 1, Len(components) - 1))
              ELSE NormalizeComponents(Tail(parts), components)
         ELSE NormalizeComponents(Tail(parts), Append(components, component))

\* normalize_path_simple() splitting the path as given and replacing the
\* backslashes only in the joined result
normalize_path_simple_late_replace(path_str) ==
    LET components == NormalizeComponents(Split(path_str, SLASH), << >>)
        prefix == IF StartsWith(path_str, SLASH) THEN << SLASH >> ELSE Empty
    IN  IF Len(components) = 0 THEN prefix
        ELSE prefix \o ReplaceBackslash(Join(components, << SLASH >>))

\* normalize_path_simple() keeping a ".." that has nothing to remove
RECURSIVE KeepDotDotComponents(_, _)
KeepDotDotComponents(parts, components) ==
    IF Len(parts) = 0 THEN components
    ELSE LET component == Head(parts) IN
         IF component = DOT \/ component = Empty
         THEN KeepDotDotComponents(Tail(parts), components)
         ELSE IF component = DOTDOT
                 /\ Len(components) > 0 /\ components[Len(components)] # DOTDOT
         THEN KeepDotDotComponents(Tail(parts),
                                   SubSeq(components, 1, Len(components) - 1))
         ELSE KeepDotDotComponents(Tail(parts), Append(components, component))
normalize_path_simple_keeps_dotdot(path_str) ==
    LET normalized == ReplaceBackslash(path_str)
        components == KeepDotDotComponents(Split(normalized, SLASH), << >>)
        prefix == IF StartsWith(path_str, SLASH) THEN << SLASH >> ELSE Empty
    IN  IF Len(components) = 0 THEN prefix
        ELSE prefix \o Join(components, << SLASH >>)

normalize_path_simple(path_str) ==
    LET normalized == ReplaceBackslash(path_str)
        components == NormalizeComponents(Split(normalized, SLASH), << >>)
        prefix == IF StartsWith(path_str, SLASH) THEN << SLASH >> ELSE Empty
    IN  IF Len(components) = 0 THEN prefix
        ELSE prefix \o Join(components, << SLASH >>)

build_full_path(root_path, relative_href) ==
    IF root_path = Empty
    THEN normalize_path_simple(relative_href)
    ELSE normalize_path_simple(root_path \o << SLASH >> \o relative_href)

\* ------------------------------------------------------------------------
\* std::path::Path / PathBuf on '/'-separated strings
\* ------------------------------------------------------------------------
\* Path::components without the root: repeated separators and "." are skipped
PathComponents(p) == SelectSeq(Split(p, SLASH), LAMBDA c : c # Empty /\ c # DOT)

\* Path::parent: None when the path has no component left to strip
PathParent(p) ==
    LET comps == PathComponents(p)
        prefix == IF StartsWith(p, SLASH) THEN << SLASH >> ELSE Empty
    IN  IF Len(comps) = 0 THEN None
        ELSE Some(prefix \o Join(SubSeq(comps, 1, Len(comps) - 1), << SLASH >>))

\* PathBuf::pop: truncates to the parent, does nothing when there is none
PathPop(p) == IF IsSome(PathParent(p)) THEN Unwrap(PathParent(p)) ELSE p

\* PathBuf::push of a relative component: a separator is added unless the
\* buffer is empty or already ends with one
PathPush(p, component) ==
    IF Len(p) = 0 \/ p[Len(p)] = SLASH THEN p \o component
    ELSE p \o << SLASH >> \o component

\* Path::new(file).parent().unwrap_or_else(|| Path::new(""))
BasePathOf(file_path) ==
    IF IsSome(PathParent(file_path)) THEN Unwrap(PathParent(file_path)) ELSE Empty

\* the component loop of resolve_relative_path
RECURSIVE ResolveComponents(_, _)
ResolveComponents(parts, current) ==
    IF Len(parts) = 0 THEN current
    ELSE LET component == Head(parts) IN
         IF component = DOT \/ component = Empty
         THEN ResolveComponents(Tail(parts), current)
         ELSE IF component = DOTDOT
         THEN ResolveComponents(Tail(parts), PathPop(current))
         ELSE ResolveComponents(Tail(parts), PathPush(current, component))

resolve_relative_path(base_path, relative_path) ==
    IF StartsWith(relative_path, SLASH)
    THEN TrimStartSlashes(relative_path)
    ELSE LET relative_path_no_fragment == Split(relative_path, "#")[1]
         IN  ResolveComponents(Split(relative_path_no_fragment, SLASH), base_path)

\* ------------------------------------------------------------------------
\* Archive entries and parsed documents
\* ------------------------------------------------------------------------
\* An archive is a function from entry names to entries.  An entry is
\*   [utf8 : BOOLEAN, xml : Option<element>, anchors : Seq(anchor)]
\* utf8 tells whether read_to_string succeeds, xml is the roxmltree document
\* (None when the text is not well-formed XML), anchors are the elements the
\* TOC selector matches, in document order, when the text is parsed as HTML.
\* An element is [name, attrs, text, children]; attrs is a function from
\* attribute names to values.
Attr(node, a) == IF a \in DOMAIN node.attrs THEN Some(node.attrs[a]) ELSE None

\* node.children().find(|n| n.tag_name().name() == name)
FindChild(node, name) ==
    LET hits == SelectSeq(node.children, LAMBDA n : n.name = name)
    IN  IF Len(hits) = 0 THEN None ELSE Some(hits[1])

\* node.children().filter(|n| n.tag_name().name() == name)
ChildrenNamed(node, name) == SelectSeq(node.children, LAMBDA n : n.name = name)

\* Node::descendants: the node itself, then its subtree in document order
RECURSIVE Descendants(_)
RECURSIVE DescendantsOfAll(_)
Descendants(node) == << node >> \o DescendantsOfAll(node.children)
DescendantsOfAll(nodes) ==
    IF Len(nodes) = 0 THEN << >>
    ELSE Descendants(Head(nodes)) \o DescendantsOfAll(Tail(nodes))

\* doc.descendants().find(|n| n.tag_name().name() == name)
FindDescendant(root, name) ==
    LET hits == SelectSeq(Descendants(root), LAMBDA n : n.name = name)
    IN  IF Len(hits) = 0 THEN None ELSE Some(hits[1])

\* str::trim on the characters of the model: blanks at both ends are removed
RECURSIVE TrimStart(_)
TrimStart(s) == IF StartsWith(s, " ") THEN TrimStart(Tail(s)) ELSE s
RECURSIVE TrimEnd(_)
TrimEnd(s) ==
    IF Len(s) > 0 /\ s[Len(s)] = " " THEN TrimEnd(SubSeq(s, 1, Len(s) - 1)) ELSE s
Trim(s) == TrimEnd(TrimStart(s))

CONTAINER_PATH ==
    << "M", "E", "T", "A", "-", "I", "N", "F", "/",
       "c", "o", "n", "t", "a", "i", "n", "e", "r", ".", "x", "m", "l" >>
OPF_MIME_TYPE == "application/oebps-package+xml"

read_entry_to_string(archive, path) ==
    IF path \notin DOMAIN archive THEN Err("Zip::FileNotFound", << >>)
    ELSE IF ~archive[path].utf8 THEN Err("Io", << >>)
    ELSE Ok(archive[path])

\* roxmltree::Document::parse on the text of an entry
Document_parse(content) ==
    IF IsSome(content.xml) THEN Ok(Unwrap(content.xml)) ELSE Err("Xml", << >>)

\* parse_container() rejecting a rootfile of another media type
ContainerRootfile_media_type_required(rootfile_node) ==
    IF ~IsSome(Attr(rootfile_node, "full-path"))
    THEN [res |-> Err("MissingFullPathAttribute", << >>), warnings |-> << >>]
    ELSE IF Attr(rootfile_node, "media-type") # Some(OPF_MIME_TYPE)
    THEN [res |-> Err("MissingRootfileElement", << >>), warnings |-> << >>]
    ELSE [res |-> Ok(Unwrap(Attr(rootfile_node, "full-path"))), warnings |-> << >>]

\* lines 147-157: full-path is required, the media type only warned about
ContainerRootfile(rootfile_node) ==
    IF ~IsSome(Attr(rootfile_node, "full-path"))
    THEN [res |-> Err("MissingFullPathAttribute", << >>), warnings |-> << >>]
    ELSE [res |-> Ok(Unwrap(Attr(rootfile_node, "full-path"))),
          warnings |-> IF Attr(rootfile_node, "media-type") # Some(OPF_MIME_TYPE)
                       THEN << "rootfile_media_type" >> ELSE << >>]

\* lines 142-145: the first rootfile element of the document
ContainerDocument(doc) ==
    IF ~doc.ok THEN [res |-> doc, warnings |-> << >>]
    ELSE IF ~IsSome(FindDescendant(doc.val, "rootfile"))
    THEN [res |-> Err("MissingRootfileElement", << >>), warnings |-> << >>]
    ELSE ContainerRootfile(Unwrap(FindDescendant(doc.val, "rootfile")))

ContainerContent(rd) ==
    IF ~rd.ok THEN [res |-> Err("MissingContainerXml", << >>), warnings |-> << >>]
    ELSE ContainerDocument(Document_parse(rd.val))

\* returns the result and the warnings written to stderr
parse_container(archive) ==
    ContainerContent(read_entry_to_string(archive, CONTAINER_PATH))

\* HashMap::insert: a later item with the same id replaces the earlier one
MapInsert(m, k, v) == [x \in DOMAIN m \cup {k} |-> IF x = k THEN v ELSE m[x]]
EmptyMap == [x \in {} |-> << >>]

RECURSIVE ManifestLoop(_, _)
ManifestLoop(items, manifest) ==
    IF Len(items) = 0 THEN Ok(manifest)
    ELSE LET item_node == Head(items)
             id == Attr(item_node, "id")
             href == Attr(item_node, "href")
             media_type == Attr(item_node, "media-type")
             properties == Attr(item_node, "properties")
         IN  IF ~IsSome(id) \/ ~IsSome(href) \/ ~IsSome(media_type)
             THEN Err("XmlTextExtractionError", << >>)
             ELSE ManifestLoop(Tail(items),
                      MapInsert(manifest, Unwrap(id),
                                [id |-> Unwrap(id), href |-> Unwrap(href),
                                 media_type |-> Unwrap(media_type),
                                 properties |-> properties]))

\* parse_manifest() storing every href in normalized form
RECURSIVE NormalizedManifestLoop(_, _)
NormalizedManifestLoop(items, manifest) ==
    IF Len(items) = 0 THEN Ok(manifest)
    ELSE LET item_node == Head(items)
             id == Attr(item_node, "id")
             href == Attr(item_node, "href")
             media_type == Attr(item_node, "media-type")
         IN  IF ~IsSome(id) \/ ~IsSome(href) \/ ~IsSome(media_type)
             THEN Err("XmlTextExtractionError", << >>)
             ELSE NormalizedManifestLoop(Tail(items),
                      MapInsert(manifest, Unwrap(id),
                                [id |-> Unwrap(id),
                                 href |-> normalize_path_simple(Unwrap(href)),
                                 media_type |-> Unwrap(media_type),
                                 properties |-> Attr(item_node, "properties")]))
parse_manifest_normalized(manifest_node) ==
    NormalizedManifestLoop(ChildrenNamed(manifest_node, "item"), EmptyMap)

\* parse_manifest() skipping the items that lack a mandatory attribute
RECURSIVE LenientManifestLoop(_, _)
LenientManifestLoop(items, manifest) ==
    IF Len(items) = 0 THEN Ok(manifest)
    ELSE LET item_node == Head(items)
             id == Attr(item_node, "id")
             href == Attr(item_node, "href")
             media_type == Attr(item_node, "media-type")
         IN  IF ~IsSome(id) \/ ~IsSome(href) \/ ~IsSome(media_type)
             THEN LenientManifestLoop(Tail(items), manifest)
             ELSE LenientManifestLoop(Tail(items),
                      MapInsert(manifest, Unwrap(id),
                                [id |-> Unwrap(id), href |-> Unwrap(href),
                                 media_type |-> Unwrap(media_type),
                                 properties |-> Attr(item_node, "properties")]))
parse_manifest_lenient(manifest_node) ==
    LenientManifestLoop(ChildrenNamed(manifest_node, "item"), EmptyMap)

parse_manifest(manifest_node) ==
    ManifestLoop(ChildrenNamed(manifest_node, "item"), EmptyMap)

RECURSIVE SpineLoop(_, _)
SpineLoop(itemrefs, spine_ids) ==
    IF Len(itemrefs) = 0 THEN Ok(spine_ids)
    ELSE LET idref == Attr(Head(itemrefs), "idref") IN
         IF ~IsSome(idref) THEN Err("XmlTextExtractionError", << >>)
         ELSE SpineLoop(Tail(itemrefs), Append(spine_ids, Unwrap(idref)))

parse_spine(spine_node) == SpineLoop(ChildrenNamed(spine_node, "itemref"), << >>)

\* ------------------------------------------------------------------------
\* TOC parsers
\* ------------------------------------------------------------------------
\* the loop of parse_nav_xhtml over the anchors the selector matched
RECURSIVE NavAnchorLoop(_, _, _, _)
NavAnchorLoop(elements, toc, nav_base_path, root_path) ==
    IF Len(elements) = 0 THEN toc
    ELSE LET element == Head(elements)
             href_attr == Attr(element, "href")
             label == Trim(element.text)
         IN  IF ~IsSome(href_attr)
             THEN NavAnchorLoop(Tail(elements), toc, nav_base_path, root_path)
             ELSE IF label = Empty \/ Unwrap(href_attr) = Empty
             THEN NavAnchorLoop(Tail(elements), toc, nav_base_path, root_path)
             ELSE LET resolved_href ==
                          resolve_relative_path(nav_base_path, Unwrap(href_attr))
                      final_href == build_full_path(root_path, resolved_href)
                  IN  NavAnchorLoop(Tail(elements),
                          Append(toc, [label |-> label, href |-> final_href,
                                       id |-> Attr(element, "id")]),
                          nav_base_path, root_path)

\* selector_ok: whether scraper::Selector::parse accepted one of the two
\* selector texts
parse_nav_xhtml(content, root_path, nav_file_path, selector_ok) ==
    IF ~selector_ok THEN Err("TocParseError", << >>)
    ELSE Ok(NavAnchorLoop(content.anchors, << >>, BasePathOf(nav_file_path), root_path))

SinEtiqueta == << "S", "i", "n", " ", "e", "t", "i", "q", "u", "e", "t", "a" >>

\* the label a navPoint is given: the default unless navLabel/text exists
NavPointLabel(node) ==
    LET nav_label_node == FindChild(node, "navLabel") IN
    IF ~IsSome(nav_label_node) THEN SinEtiqueta
    ELSE LET text_node == FindChild(Unwrap(nav_label_node), "text") IN
         IF ~IsSome(text_node) THEN SinEtiqueta
         ELSE LET t == Unwrap(text_node).text
              IN  Trim(IF IsSome(t) THEN Unwrap(t) ELSE Empty)

\* NavPointEntry() recording a navPoint whatever its label is
NavPointEntry_any_label(node, ncx_base_path, root_path) ==
    LET label == NavPointLabel(node)
        content_node == FindChild(node, "content")
    IN  IF ~IsSome(content_node) THEN << >>
        ELSE LET src_attr == Attr(Unwrap(content_node), "src") IN
             IF ~IsSome(src_attr) THEN << >>
             ELSE IF Unwrap(src_attr) # Empty
             THEN << [label |-> label,
                      href |-> build_full_path(
                                  root_path,
                                  resolve_relative_path(ncx_base_path, Unwrap(src_attr))),
                      id |-> Attr(node, "id")] >>
             ELSE << >>

\* the entry a navPoint itself contributes: zero or one TocEntry
NavPointEntry(node, ncx_base_path, root_path) ==
    LET label == NavPointLabel(node)
        content_node == FindChild(node, "content")
    IN  IF ~IsSome(content_node) THEN << >>
        ELSE LET src_attr == Attr(Unwrap(content_node), "src") IN
             IF ~IsSome(src_attr) THEN << >>
             ELSE IF label # Empty /\ Unwrap(src_attr) # Empty
             THEN LET resolved_href ==
                          resolve_relative_path(ncx_base_path, Unwrap(src_attr))
                      final_href == build_full_path(root_path, resolved_href)
                  IN  << [label |-> label, href |-> final_href,
                          id |-> Attr(node, "id")] >>
             ELSE << >>

\* returns the entries appended to toc by the walk below parent_node
RECURSIVE parse_navpoints(_, _, _)
RECURSIVE NavPointsOfAll(_, _, _)
parse_navpoints(parent_node, ncx_base_path, root_path) ==
    NavPointsOfAll(parent_node.children, ncx_base_path, root_path)
\* the walk going below a navPoint only when the navPoint gave an entry
RECURSIVE NavPointsOfAll_entries_only(_, _, _)
NavPointsOfAll_entries_only(nodes, ncx_base_path, root_path) ==
    IF Len(nodes) = 0 THEN << >>
    ELSE LET node == Head(nodes)
             here == IF node.name = "navPoint"
                        /\ NavPointEntry(node, ncx_base_path, root_path) # << >>
                     THEN NavPointEntry(node, ncx_base_path, root_path)
                          \o parse_navpoints(node, ncx_base_path, root_path)
                     ELSE << >>
         IN  here \o NavPointsOfAll_entries_only(Tail(nodes), ncx_base_path, root_path)
NavPointsOfAll(nodes, ncx_base_path, root_path) ==
    IF Len(nodes) = 0 THEN << >>
    ELSE LET node == Head(nodes)
             here == IF node.name = "navPoint"
                     THEN NavPointEntry(node, ncx_base_path, root_path)
                          \o parse_navpoints(node, ncx_base_path, root_path)
                     ELSE << >>
         IN  here \o NavPointsOfAll(Tail(nodes), ncx_base_path, root_path)

parse_ncx(content, root_path, ncx_file_path) ==
    LET doc == Document_parse(content) IN
    IF ~doc.ok THEN doc
    ELSE LET nav_map_node == FindDescendant(doc.val, "navMap") IN
         IF ~IsSome(nav_map_node) THEN Err("TocParseError", << >>)
         ELSE Ok(parse_navpoints(Unwrap(nav_map_node),
                                 BasePathOf(ncx_file_path), root_path))

\* ------------------------------------------------------------------------
\* TOC discovery and EpubDocument::open
\* ------------------------------------------------------------------------
\* manifest.values().find(|item| item.properties.as_deref() == Some("nav")):
\* the HashMap's iteration order decides among several marked items;
\* hash_first is the id that order happens to put first.
FindNavItem(manifest, hash_first) ==
    LET marked == {id \in DOMAIN manifest : manifest[id].properties = Some("nav")}
    IN  IF marked = {} THEN None
        ELSE IF hash_first \in marked THEN Some(manifest[hash_first])
        ELSE Some(manifest[CHOOSE id \in marked : TRUE])

NoAttempt ==
    [found |-> FALSE, toc |-> << >>, reads |-> << >>, parsed |-> << >>,
     warnings |-> << >>]

\* one TOC source after its entry was read (rd) and, if readable, parsed (pr):
\* the match arms of lines 197-206 and 214-223
SourceResult(kind, href, rd, pr) ==
    IF ~rd.ok
    THEN [NoAttempt EXCEPT !.reads = << href >>,
                           !.warnings = << kind \o "_unreadable" >>]
    ELSE IF pr.ok /\ pr.val # << >>
    THEN [NoAttempt EXCEPT !.reads = << href >>, !.parsed = << kind >>,
                           !.found = TRUE, !.toc = pr.val]
    ELSE IF pr.ok
    THEN [NoAttempt EXCEPT !.reads = << href >>, !.parsed = << kind >>,
                           !.warnings = << kind \o "_empty" >>]
    ELSE [NoAttempt EXCEPT !.reads = << href >>, !.parsed = << kind >>,
                           !.warnings = << kind \o "_parse_error" >>]

NavParsed(root_path, nav_href, selector_ok, rd) ==
    SourceResult("nav", nav_href, rd,
                 IF rd.ok THEN parse_nav_xhtml(rd.val, root_path, nav_href, selector_ok)
                 ELSE rd)

NavAt(archive, root_path, nav_href, selector_ok) ==
    NavParsed(root_path, nav_href, selector_ok, read_entry_to_string(archive, nav_href))

\* lines 195-207: the EPUB 3 navigation document
TocFromNav(archive, manifest, root_path, hash_first, selector_ok) ==
    IF IsSome(FindNavItem(manifest, hash_first))
    THEN NavAt(archive, root_path,
               build_full_path(root_path, Unwrap(FindNavItem(manifest, hash_first)).href),
               selector_ok)
    ELSE NoAttempt

NcxParsed(root_path, ncx_href, rd) ==
    SourceResult("ncx", ncx_href, rd,
                 IF rd.ok THEN parse_ncx(rd.val, root_path, ncx_href) ELSE rd)

NcxAt(archive, root_path, ncx_href) ==
    NcxParsed(root_path, ncx_href, read_entry_to_string(archive, ncx_href))

\* lines 211-227: the EPUB 2 NCX named by the spine's toc attribute
TocFromNcx(archive, manifest, root_path, spine_node) ==
    IF ~IsSome(Attr(spine_node, "toc")) THEN NoAttempt
    ELSE IF Unwrap(Attr(spine_node, "toc")) \notin DOMAIN manifest
    THEN [NoAttempt EXCEPT !.warnings = << "toc_id_not_in_manifest" >>]
    ELSE NcxAt(archive, root_path,
               build_full_path(root_path,
                               manifest[Unwrap(Attr(spine_node, "toc"))].href))

\* what parse_toc returns, given the attempts made: the Result and what the
\* discovery read, parsed and warned about
TocOutcome(res, attempts, more_warnings) ==
    [res |-> res,
     reads |-> attempts[1].reads \o attempts[2].reads,
     parsed |-> attempts[1].parsed \o attempts[2].parsed,
     warnings |-> attempts[1].warnings \o attempts[2].warnings \o more_warnings]

\* lines 210-231: the nav attempt did not return
TocAfterNav(nav, ncx) ==
    IF ncx.found THEN TocOutcome(Ok(ncx.toc), << nav, ncx >>, << >>)
    ELSE TocOutcome(Ok(<< >>), << nav, ncx >>, << "no_toc" >>)

\* parse_toc() failing when no source yields entries (TocNotFound)
FatalAfterNav(nav, ncx) ==
    IF ncx.found THEN TocOutcome(Ok(ncx.toc), << nav, ncx >>, << >>)
    ELSE TocOutcome(Err("TocNotFound", << >>), << nav, ncx >>, << >>)
FatalChain(archive, manifest, root_path, spine_node, nav) ==
    IF nav.found THEN TocOutcome(Ok(nav.toc), << nav, NoAttempt >>, << >>)
    ELSE FatalAfterNav(nav, TocFromNcx(archive, manifest, root_path, spine_node))
parse_toc_fatal(archive, manifest, root_path, spine_node, hash_first, selector_ok) ==
    FatalChain(archive, manifest, root_path, spine_node,
               TocFromNav(archive, manifest, root_path, hash_first, selector_ok))

\* parse_toc() consulting the NCX although the nav document yielded entries
NcxWinsOf(nav, ncx) ==
    IF ncx.found THEN TocOutcome(Ok(ncx.toc), << nav, ncx >>, << >>)
    ELSE IF nav.found THEN TocOutcome(Ok(nav.toc), << nav, ncx >>, << >>)
    ELSE TocOutcome(Ok(<< >>), << nav, ncx >>, << "no_toc" >>)
parse_toc_ncx_wins(archive, manifest, root_path, spine_node, hash_first, selector_ok) ==
    NcxWinsOf(TocFromNav(archive, manifest, root_path, hash_first, selector_ok),
              TocFromNcx(archive, manifest, root_path, spine_node))

\* parse_toc() giving up when a nav item exists but yields nothing
NoFallbackChain(archive, manifest, root_path, spine_node, hash_first, nav) ==
    IF nav.found THEN TocOutcome(Ok(nav.toc), << nav, NoAttempt >>, << >>)
    ELSE IF IsSome(FindNavItem(manifest, hash_first))
    THEN TocOutcome(Ok(<< >>), << nav, NoAttempt >>, << "no_toc" >>)
    ELSE TocAfterNav(nav, TocFromNcx(archive, manifest, root_path, spine_node))
parse_toc_no_fallback(archive, manifest, root_path, spine_node, hash_first, selector_ok) ==
    NoFallbackChain(archive, manifest, root_path, spine_node, hash_first,
                    TocFromNav(archive, manifest, root_path, hash_first, selector_ok))

\* lines 194-231: the nav attempt returns its entries, or the NCX is tried
TocChain(archive, manifest, root_path, spine_node, nav) ==
    IF nav.found THEN TocOutcome(Ok(nav.toc), << nav, NoAttempt >>, << >>)
    ELSE TocAfterNav(nav, TocFromNcx(archive, manifest, root_path, spine_node))

parse_toc(archive, manifest, root_path, spine_node, hash_first, selector_ok) ==
    TocChain(archive, manifest, root_path, spine_node,
             TocFromNav(archive, manifest, root_path, hash_first, selector_ok))

\* the outcome of open: the Result, the entries read, the TOC parsers run and
\* the warnings, in order
Outcome(res, reads, parsed, warnings) ==
    [res |-> res, reads |-> reads, parsed |-> parsed, warnings |-> warnings]

\* open() returning the error e before TOC discovery; ctx is
\* [archive, root_path, reads, warned, hash_first, selector_ok]
Fail(ctx, e) == Outcome(e, ctx.reads, << >>, ctx.warned)

\* lines 90-101: the TOC, then the document
OpenToc(ctx, manifest, spine_ids, toc) ==
    IF ~toc.res.ok
    THEN Outcome(toc.res, ctx.reads \o toc.reads, toc.parsed,
                 ctx.warned \o toc.warnings)
    ELSE Outcome(Ok([manifest |-> manifest, spine_ids |-> spine_ids,
                     toc |-> toc.res.val, root_path |-> ctx.root_path]),
                 ctx.reads \o toc.reads, toc.parsed, ctx.warned \o toc.warnings)

\* line 88: the parsed spine
OpenSpine(ctx, manifest, spine_node, spine_ids) ==
    IF ~spine_ids.ok THEN Fail(ctx, spine_ids)
    ELSE OpenToc(ctx, manifest, spine_ids.val,
                 parse_toc(ctx.archive, manifest, ctx.root_path, spine_node,
                           ctx.hash_first, ctx.selector_ok))

\* lines 83-87: the parsed manifest, then the spine element
OpenManifest(ctx, package_node, manifest) ==
    IF ~manifest.ok THEN Fail(ctx, manifest)
    ELSE IF ~IsSome(FindChild(package_node, "spine"))
    THEN Fail(ctx, Err("MissingSpineElement", << >>))
    ELSE OpenSpine(ctx, manifest.val, Unwrap(FindChild(package_node, "spine")),
                   parse_spine(Unwrap(FindChild(package_node, "spine"))))

\* open() reporting every missing section as a missing package
OpenSections_one_error(ctx, package_node) ==
    IF ~IsSome(FindChild(package_node, "metadata"))
    THEN Fail(ctx, Err("MissingPackageElement", << >>))
    ELSE IF ~IsSome(FindChild(package_node, "manifest"))
    THEN Fail(ctx, Err("MissingPackageElement", << >>))
    ELSE OpenManifest(ctx, package_node,
                      parse_manifest(Unwrap(FindChild(package_node, "manifest"))))

\* lines 76-82: the metadata element (Metadata::parse cannot fail), then the
\* manifest element
OpenSections(ctx, package_node) ==
    IF ~IsSome(FindChild(package_node, "metadata"))
    THEN Fail(ctx, Err("MissingMetadataElement", << >>))
    ELSE IF ~IsSome(FindChild(package_node, "manifest"))
    THEN Fail(ctx, Err("MissingManifestElement", << >>))
    ELSE OpenManifest(ctx, package_node,
                      parse_manifest(Unwrap(FindChild(package_node, "manifest"))))

\* lines 67-73: the package element is the root element or one of its children
OpenDocument(ctx, opf_doc) ==
    IF ~opf_doc.ok THEN Fail(ctx, opf_doc)
    ELSE IF opf_doc.val.name = "package" THEN OpenSections(ctx, opf_doc.val)
    ELSE IF ~IsSome(FindChild(opf_doc.val, "package"))
    THEN Fail(ctx, Err("MissingPackageElement", << >>))
    ELSE OpenSections(ctx, Unwrap(FindChild(opf_doc.val, "package")))

\* lines 64-65: the descriptor is read and parsed
OpenDescriptor(ctx, opf_content) ==
    IF ~opf_content.ok THEN Fail(ctx, opf_content)
    ELSE OpenDocument(ctx, Document_parse(opf_content.val))

\* lines 55-101: open() once the container named the package descriptor
OpenPackage(archive, opf_path_str, hash_first, selector_ok, warned) ==
    OpenDescriptor([archive |-> archive, root_path |-> BasePathOf(opf_path_str),
                    reads |-> << CONTAINER_PATH, opf_path_str >>,
                    warned |-> warned, hash_first |-> hash_first,
                    selector_ok |-> selector_ok],
                   read_entry_to_string(archive, opf_path_str))

OpenContainer(archive, container, hash_first, selector_ok) ==
    IF ~container.res.ok
    THEN Outcome(container.res, << CONTAINER_PATH >>, << >>, container.warnings)
    ELSE OpenPackage(archive, container.res.val, hash_first, selector_ok,
                     container.warnings)

\* EpubDocument::open on the file [zip_ok, entries]: zip_ok tells whether
\* File::open and ZipArchive::new succeed
open(file, hash_first, selector_ok) ==
    IF ~file.zip_ok THEN Outcome(Err("Zip", << >>), << >>, << >>, << >>)
    ELSE OpenContainer(file.entries, parse_container(file.entries),
                       hash_first, selector_ok)

\* read_chapter_content() passing every error of the read on as it is
read_chapter_content_raw_error(archive, href) ==
    read_entry_to_string(archive, href)

\* EpubDocument::read_chapter_content: the text of the entry, or the error
\* with the requested path as its payload
read_chapter_content(archive, href) ==
    IF ~read_entry_to_string(archive, href).ok
          /\ read_entry_to_string(archive, href).err = "Zip::FileNotFound"
    THEN Err("ContentReadError", href)
    ELSE read_entry_to_string(archive, href)

\* EpubDocument::create_navigator with Navigator::new
Navigator_new(spine_ids, toc, manifest, root_path) ==
    [spine_ids |-> spine_ids, current_spine_index |-> 0, toc |-> toc,
     manifest |-> manifest, root_path |-> root_path]

\* create_navigator() leaving the TOC behind
create_navigator_without_toc(doc) ==
    Navigator_new(doc.spine_ids, << >>, doc.manifest, doc.root_path)

create_navigator(doc) ==
    Navigator_new(doc.spine_ids, doc.toc, doc.manifest, doc.root_path)

\* ------------------------------------------------------------------------
\* Navigator (src/navigation.rs); a mutating call returns the navigator
\* after the call and the value returned
\* ------------------------------------------------------------------------
\* next() with the bound test off by one
next_off_by_one(self) ==
    IF self.current_spine_index + 1 <= Len(self.spine_ids)
    THEN [self |-> [self EXCEPT !.current_spine_index = @ + 1], ret |-> TRUE]
    ELSE [self |-> self, ret |-> FALSE]

next(self) ==
    IF self.current_spine_index + 1 < Len(self.spine_ids)
    THEN [self |-> [self EXCEPT !.current_spine_index = @ + 1], ret |-> TRUE]
    ELSE [self |-> self, ret |-> FALSE]

\* prev() without the test for the first chapter
prev_unguarded(self) ==
    [self |-> [self EXCEPT !.current_spine_index = @ - 1], ret |-> TRUE]

\* prev() reporting a move also when it stays at the first chapter
prev_always_true(self) ==
    IF self.current_spine_index > 0
    THEN [self |-> [self EXCEPT !.current_spine_index = @ - 1], ret |-> TRUE]
    ELSE [self |-> self, ret |-> TRUE]

prev(self) ==
    IF self.current_spine_index > 0
    THEN [self |-> [self EXCEPT !.current_spine_index = @ - 1], ret |-> TRUE]
    ELSE [self |-> self, ret |-> FALSE]

\* goto() storing the 1-based number as the 0-based index
goto_one_based_index(self, index_one_based) ==
    IF index_one_based > 0 /\ index_one_based <= Len(self.spine_ids)
    THEN [self |-> [self EXCEPT !.current_spine_index = index_one_based],
          ret |-> TRUE]
    ELSE [self |-> self, ret |-> FALSE]

\* goto() without the upper bound test
goto_no_upper_bound(self, index_one_based) ==
    IF index_one_based > 0
    THEN [self |-> [self EXCEPT !.current_spine_index = index_one_based - 1],
          ret |-> TRUE]
    ELSE [self |-> self, ret |-> FALSE]

goto(self, index_one_based) ==
    IF index_one_based > 0 /\ index_one_based <= Len(self.spine_ids)
    THEN [self |-> [self EXCEPT !.current_spine_index = index_one_based - 1],
          ret |-> TRUE]
    ELSE [self |-> self, ret |-> FALSE]

\* Vec::get(index) is 0-based
current_chapter_id(self) ==
    IF self.current_spine_index < Len(self.spine_ids)
    THEN Some(self.spine_ids[self.current_spine_index + 1])
    ELSE None

\* current_chapter_href() reporting a missing manifest item as a bad index
current_chapter_href_one_error(self) ==
    LET id == current_chapter_id(self) IN
    IF ~IsSome(id) \/ Unwrap(id) \notin DOMAIN self.manifest
    THEN Err("InvalidChapterIndex", << self.current_spine_index >>)
    ELSE LET manifest_item == self.manifest[Unwrap(id)]
             full_path == IF self.root_path = Empty
                          THEN manifest_item.href
                          ELSE self.root_path \o << SLASH >> \o manifest_item.href
         IN  Ok(ReplaceDoubleSlash(full_path))

current_chapter_href(self) ==
    LET id == current_chapter_id(self) IN
    IF ~IsSome(id) THEN Err("InvalidChapterIndex", << self.current_spine_index >>)
    ELSE IF Unwrap(id) \notin DOMAIN self.manifest
    THEN Err("ManifestItemNotFound", id)
    ELSE LET manifest_item == self.manifest[Unwrap(id)]
             full_path == IF self.root_path = Empty
                          THEN manifest_item.href
                          ELSE self.root_path \o << SLASH >> \o manifest_item.href
         IN  Ok(ReplaceDoubleSlash(full_path))

\* current_position() reporting the 0-based index
current_position_zero_based(self) ==
    << self.current_spine_index, Len(self.spine_ids) >>

current_position(self) == << self.current_spine_index + 1, Len(self.spine_ids) >>

total_chapters(self) == Len(self.spine_ids)

get_toc(self) == self.toc

\* ------------------------------------------------------------------------
\* The EPUB files explored
\* ------------------------------------------------------------------------
El(name, attrs, children) ==
    [name |-> name, attrs |-> attrs, text |-> None, children |-> children]
NoAttrs == EmptyMap
OptAttr(a, opt) == IF IsSome(opt) THEN a :> Unwrap(opt) ELSE NoAttrs

XmlEntry(root) == [utf8 |-> TRUE, xml |-> Some(root), anchors |-> << >>]
BadXmlEntry == [utf8 |-> TRUE, xml |-> None, anchors |-> << >>]
BinaryEntry == [utf8 |-> FALSE, xml |-> None, anchors |-> << >>]
HtmlEntry(anchors) == [utf8 |-> TRUE, xml |-> None, anchors |-> anchors]
EntryAt(path, opt) == IF IsSome(opt) THEN path :> Unwrap(opt) ELSE EmptyMap

Container(rootfiles) ==
    El("container", NoAttrs, << El("rootfiles", NoAttrs, rootfiles) >>)
Rootfile(full_path, media_type) ==
    El("rootfile", OptAttr("full-path", full_path) @@ OptAttr("media-type", media_type),
       << >>)

Item(id, href, media_type, properties) ==
    El("item", OptAttr("id", id) @@ OptAttr("href", href)
               @@ OptAttr("media-type", media_type)
               @@ OptAttr("properties", properties), << >>)
XHTML == Some("application/xhtml+xml")
Itemref(idref) == El("itemref", OptAttr("idref", idref), << >>)
ItemrefsOf(ids) == [i \in 1..Len(ids) |-> Itemref(Some(ids[i]))]

Package(items, toc_attr, itemrefs) ==
    El("package", NoAttrs,
       << El("metadata", NoAttrs, << >>),
          El("manifest", NoAttrs, items),
          El("spine", OptAttr("toc", toc_attr), itemrefs) >>)

\* the directories the package descriptor may live in, and its path there
RootDirs == { Empty, << "O" >> }
InDir(dir, name) == IF dir = Empty THEN name ELSE dir \o << SLASH >> \o name
OpfName == << "p" >>

EpubFile(dir, media_type, opf_root, others) ==
    [zip_ok |-> TRUE,
     entries |-> (CONTAINER_PATH :>
                     XmlEntry(Container(<< Rootfile(Some(InDir(dir, OpfName)),
                                                    media_type) >>)))
                 @@ (InDir(dir, OpfName) :> XmlEntry(opf_root))
                 @@ others]

SeqsUpTo(S, n) == UNION { [1..k -> S] : k \in 0..n }

\* --- packages that differ in spine, chapter hrefs and root directory ----
SpineIdrefs == { "ch1", "ch2", "ghost" }
ChapterHrefs ==
    { << "a" >>,
      << ".", "/", "a" >>,
      << ".", ".", "/", "a" >>,
      << "b", "/", "/", "a" >>,
      << "b", "/", "/", "/", "a" >> }
Ch2Href == << "c" >>

\* the chapter files of the archive: the first is text, the second is not
\* valid UTF-8
ChapterEntries(dir) ==
    (InDir(dir, << "a" >>) :> HtmlEntry(<< >>)) @@ (InDir(dir, Ch2Href) :> BinaryEntry)

ReadingFiles ==
    { EpubFile(dir, Some(OPF_MIME_TYPE),
               Package(<< Item(Some("ch1"), Some(h), XHTML, None),
                          Item(Some("ch2"), Some(Ch2Href), XHTML, None) >>,
                       None, ItemrefsOf(ids)),
               ChapterEntries(dir)) :
        dir \in RootDirs, h \in ChapterHrefs, ids \in SeqsUpTo(SpineIdrefs, MaxSpine) }

\* --- packages that differ in their TOC sources ---------------------------
NavName == << "n" >>
Nav2Name == << "m" >>
NcxName == << "t" >>
Anchor(href, text) ==
    [name |-> "a", attrs |-> OptAttr("href", href), text |-> text, children |-> << >>]
GoodAnchor == Anchor(Some(<< "a" >>), << " ", "I" >>)
BlankAnchor == Anchor(Some(<< "a" >>), << " " >>)
NoHrefAnchor == Anchor(None, << "I" >>)
OtherAnchor == Anchor(Some(<< "c", "#", "f" >>), << "M" >>)
NavDocs == { << >>, << GoodAnchor >>, << BlankAnchor >>, << NoHrefAnchor, OtherAnchor >> }

\* what the archive holds under the nav item's path
NavEntryOpts == { None, Some(BinaryEntry) } \cup { Some(HtmlEntry(d)) : d \in NavDocs }

\* the manifest items besides the chapters: no nav item, one marked nav, one
\* with other properties, two marked nav
NavItemSets ==
    { << >>,
      << Item(Some("nav"), Some(NavName), XHTML, Some("nav")) >>,
      << Item(Some("nav"), Some(NavName), XHTML, Some("cover-image")) >>,
      << Item(Some("nav"), Some(NavName), XHTML, Some("nav")),
         Item(Some("nav2"), Some(Nav2Name), XHTML, Some("nav")) >> }

Txt(name, text) == [name |-> name, attrs |-> NoAttrs, text |-> text, children |-> << >>]
NavPoint(label, src, children) ==
    El("navPoint", "id" :> "np",
       (IF IsSome(label)
        THEN << El("navLabel", NoAttrs, << Txt("text", Unwrap(label)) >>) >>
        ELSE << >>)
       \o (IF IsSome(src) THEN << El("content", "src" :> Unwrap(src), << >>) >>
           ELSE << >>)
       \o children)
Ncx(points) == El("ncx", NoAttrs, << El("head", NoAttrs, << >>),
                                    El("navMap", NoAttrs, points) >>)
GoodPoint == NavPoint(Some(Some(<< "X" >>)), Some(<< "c" >>), << >>)
\* a navPoint whose src climbs out of the NCX's directory and has a fragment
UpPoint ==
    NavPoint(Some(Some(<< "I" >>)),
             Some(<< ".", ".", SLASH, "T", SLASH, "i", "#", "f" >>), << >>)
NcxDocs ==
    { Ncx(<< >>),
      Ncx(<< GoodPoint >>),
      Ncx(<< NavPoint(Some(Some(<< " " >>)), Some(<< "c" >>), << >>) >>),
      Ncx(<< NavPoint(Some(Some(<< "P" >>)), None, << GoodPoint, UpPoint >>) >>),
      El("ncx", NoAttrs, << >>) }
NcxEntryOpts == { None, Some(BadXmlEntry) } \cup { Some(XmlEntry(d)) : d \in NcxDocs }
NcxItemSets == { << >>, << Item(Some("ncx"), Some(NcxName), Some("application/x-dtbncx+xml"), None) >> }

TocFiles ==
    { EpubFile(dir, Some(OPF_MIME_TYPE),
               Package(<< Item(Some("ch1"), Some(<< "a" >>), XHTML, None),
                          Item(Some("ch2"), Some(Ch2Href), XHTML, None) >>
                       \o navs \o ncxs,
                       toc_attr, ItemrefsOf(<< "ch1" >>)),
               EntryAt(InDir(dir, NavName), nav)
               @@ (InDir(dir, Nav2Name) :> HtmlEntry(<< OtherAnchor >>))
               @@ EntryAt(InDir(dir, NcxName), ncx)) :
        dir \in RootDirs, navs \in NavItemSets, ncxs \in NcxItemSets,
        toc_attr \in { None, Some("ncx") },
        nav \in NavEntryOpts, ncx \in NcxEntryOpts }

\* --- files open() must reject, and one it accepts with a warning ----------
PlainItems == << Item(Some("ch1"), Some(<< "a" >>), XHTML, None) >>
PlainPackage == Package(PlainItems, None, ItemrefsOf(<< "ch1" >>))
PackageOf(children) == El("package", NoAttrs, children)
MdEl == El("metadata", NoAttrs, << >>)
MfEl == El("manifest", NoAttrs, PlainItems)
SpEl == El("spine", NoAttrs, ItemrefsOf(<< "ch1" >>))
WithContainer(file, entry) ==
    [file EXCEPT !.entries = [q \in DOMAIN @ |-> IF q = CONTAINER_PATH THEN entry ELSE @[q]]]
GoodFile == EpubFile(<< "O" >>, Some(OPF_MIME_TYPE), PlainPackage, EmptyMap)

DefectFiles ==
    { [GoodFile EXCEPT !.zip_ok = FALSE],
      [zip_ok |-> TRUE, entries |-> EmptyMap],
      WithContainer(GoodFile, BadXmlEntry),
      WithContainer(GoodFile, XmlEntry(Container(<< >>))),
      WithContainer(GoodFile, XmlEntry(Container(<< Rootfile(None, Some(OPF_MIME_TYPE)) >>))),
      WithContainer(GoodFile, XmlEntry(Container(<< Rootfile(Some(<< "x" >>), Some(OPF_MIME_TYPE)) >>))),
      EpubFile(<< "O" >>, Some("text/xml"), PlainPackage, EmptyMap),
      EpubFile(<< "O" >>, None, PlainPackage, EmptyMap),
      EpubFile(Empty, Some(OPF_MIME_TYPE), El("html", NoAttrs, << >>), EmptyMap),
      EpubFile(Empty, Some(OPF_MIME_TYPE), El("wrap", NoAttrs, << PlainPackage >>), EmptyMap),
      EpubFile(Empty, Some(OPF_MIME_TYPE), PackageOf(<< MfEl, SpEl >>), EmptyMap),
      EpubFile(Empty, Some(OPF_MIME_TYPE), PackageOf(<< SpEl, MdEl >>), EmptyMap),
      EpubFile(Empty, Some(OPF_MIME_TYPE), PackageOf(<< MfEl, MdEl >>), EmptyMap),
      EpubFile(Empty, Some(OPF_MIME_TYPE), PackageOf(<< SpEl, MfEl, MdEl >>), EmptyMap),
      EpubFile(Empty, Some(OPF_MIME_TYPE),
               Package(<< Item(Some("ch1"), None, XHTML, None) >>, None,
                       ItemrefsOf(<< "ch1" >>)), EmptyMap),
      EpubFile(Empty, Some(OPF_MIME_TYPE),
               Package(PlainItems, None, << Itemref(None) >>), EmptyMap) }

\* --- packages with any of the mandatory sections, in any order -----------
SectionOrders ==
    { s \in SeqsUpTo({ MdEl, MfEl, SpEl }, 3) :
        \A i, j \in 1..Len(s) : i # j => s[i] # s[j] }
\* a manifest whose second item lacks one attribute, and one whose first does
ItemLacking(a) ==
    Item(IF a = "id" THEN None ELSE Some("ch2"),
         IF a = "href" THEN None ELSE Some(Ch2Href),
         IF a = "media-type" THEN None ELSE XHTML, None)
BadManifests ==
    { El("manifest", NoAttrs, PlainItems \o << ItemLacking(a) >>) :
        a \in { "id", "href", "media-type" } }
    \cup { El("manifest", NoAttrs, << ItemLacking(a) >> \o PlainItems) :
        a \in { "id", "href", "media-type" } }
BadSpEl == El("spine", NoAttrs, << Itemref(Some("ch1")), Itemref(None) >>)
SectionFiles ==
    { EpubFile(Empty, Some(OPF_MIME_TYPE), PackageOf(s), EmptyMap) :
        s \in SectionOrders }
    \cup { EpubFile(Empty, Some(OPF_MIME_TYPE), PackageOf(<< SpEl, m, MdEl >>), EmptyMap) :
        m \in BadManifests }
    \cup { EpubFile(Empty, Some(OPF_MIME_TYPE), PackageOf(s), EmptyMap) :
        s \in { << MdEl, MfEl, BadSpEl >>,
                << BadSpEl, CHOOSE m \in BadManifests : TRUE, MdEl >>,
                << MdEl, CHOOSE m \in BadManifests : TRUE >>,
                << SpEl, CHOOSE m \in BadManifests : TRUE >> } }
    \cup { EpubFile(Empty, Some(OPF_MIME_TYPE),
                    El("wrap", NoAttrs, << El("mid", NoAttrs, << PlainPackage >>) >>),
                    EmptyMap),
           EpubFile(Empty, Some("text/xml"), El("html", NoAttrs, << >>), EmptyMap) }

EpubFiles == ReadingFiles \cup TocFiles \cup DefectFiles \cup SectionFiles

\* ------------------------------------------------------------------------
\* The program as a state machine
\* ------------------------------------------------------------------------
VARIABLES
    epub_file,   \* the file named on the command line
    epub_doc,    \* the EpubDocument: [state, err, manifest, spine_ids, toc, root_path]
    io_log,      \* entries read, TOC parsers run and warnings printed by open()
    has_nav,     \* whether a Navigator has been created
    navigator,   \* the Navigator
    last,        \* the last Navigator call: [op, arg, ret, before, out]
    run,         \* the current run of consecutive next() or of prev() calls
    navigators,  \* the Navigators created when one document serves several
    path_call,   \* a call of a path helper: [fn, base, arg, outs]
    metadata,    \* a call of Metadata::parse: [node, parsed]
    app          \* the App of the user interface, with the last key it handled

vars == << epub_file, epub_doc, io_log, has_nav, navigator, last, run,
           navigators, path_call, metadata, app >>

NoDoc ==
    [state |-> "none", err |-> "", manifest |-> EmptyMap, spine_ids |-> << >>,
     toc |-> << >>, root_path |-> Empty]
NoNavigator == Navigator_new(<< >>, << >>, EmptyMap, Empty)
NoLog == [reads |-> << >>, parsed |-> << >>, warnings |-> << >>]
NoCall == [op |-> "none", arg |-> 0, ret |-> FALSE, before |-> NoNavigator, out |-> << >>]
NoRun == [op |-> "none", start |-> 0, len |-> 0]
NoPathCall == [fn |-> "none", base |-> Empty, arg |-> Empty, outs |-> << >>]
NoMetadataCall == [node |-> El("metadata", NoAttrs, << >>), parsed |-> None]
NoApp == [started |-> FALSE]

\* ids a HashMap may iterate first
HashFirsts == { "nav", "nav2" }

Init ==
    /\ epub_file \in EpubFiles
    /\ epub_doc = NoDoc
    /\ io_log = NoLog
    /\ has_nav = FALSE
    /\ navigator = NoNavigator
    /\ last = NoCall
    /\ run = NoRun
    /\ navigators = << >>
    /\ path_call = NoPathCall
    /\ metadata = NoMetadataCall
    /\ app = NoApp

\* what main holds after open() returned o: the document, or the error it
\* reports before it exits
DocOf(o) ==
    IF o.res.ok
    THEN [state |-> "open", err |-> "",
          manifest |-> o.res.val.manifest, spine_ids |-> o.res.val.spine_ids,
          toc |-> o.res.val.toc, root_path |-> o.res.val.root_path]
    ELSE [NoDoc EXCEPT !.state = "failed", !.err = o.res.err]

\* main.rs:30: EpubDocument::open(epub_path)
Open ==
    /\ epub_doc.state = "none"
    /\ \E hash_first \in HashFirsts, selector_ok \in BOOLEAN :
         LET o == open(epub_file, hash_first, selector_ok) IN
         /\ io_log' = [reads |-> o.reads, parsed |-> o.parsed, warnings |-> o.warnings]
         /\ epub_doc' = DocOf(o)
    /\ UNCHANGED << epub_file, has_nav, navigator, last, run, navigators, path_call, metadata, app >>

\* EpubDocument::create_navigator
CreateNavigator ==
    /\ epub_doc.state = "open"
    /\ has_nav' = TRUE
    /\ navigator' = create_navigator(epub_doc)
    /\ last' = [NoCall EXCEPT !.op = "new", !.before = navigator]
    /\ run' = NoRun
    /\ UNCHANGED << epub_file, epub_doc, io_log, navigators, path_call, metadata, app >>

\* the run after one more call of op: it grows when op repeats, else restarts
RunAfter(op) ==
    IF run.op = op THEN [run EXCEPT !.len = @ + 1]
    ELSE [op |-> op, start |-> navigator.current_spine_index, len |-> 1]
RunRoom(op) == run.op # op \/ run.len < MaxRun

Mutate(op, arg, r) ==
    /\ navigator' = r.self
    /\ last' = [op |-> op, arg |-> arg, ret |-> r.ret, before |-> navigator, out |-> << >>]
    /\ UNCHANGED << epub_file, epub_doc, io_log, has_nav, navigators, path_call, metadata, app >>

NavNext ==
    /\ has_nav /\ RunRoom("next")
    /\ Mutate("next", 0, next(navigator))
    /\ run' = RunAfter("next")

NavPrev ==
    /\ has_nav /\ RunRoom("prev")
    /\ Mutate("prev", 0, prev(navigator))
    /\ run' = RunAfter("prev")

\* the arguments tried: every valid chapter number, 0 and two numbers too large
GotoArgs == 0 .. (Len(navigator.spine_ids) + 2)

NavGoto ==
    /\ has_nav
    /\ \E n \in GotoArgs : Mutate("goto", n, goto(navigator, n))
    /\ run' = NoRun

Query(op, out) ==
    /\ has_nav
    /\ last' = [op |-> op, arg |-> 0, ret |-> FALSE, before |-> navigator, out |-> out]
    /\ run' = NoRun
    /\ UNCHANGED << epub_file, epub_doc, io_log, has_nav, navigator,
                    navigators, path_call, metadata, app >>

QueryHref == Query("current_chapter_href", current_chapter_href(navigator))
QueryId == Query("current_chapter_id", current_chapter_id(navigator))
QueryPosition == Query("current_position", current_position(navigator))
QueryTotal == Query("total_chapters", << total_chapters(navigator) >>)

\* ui/mod.rs:66-68: the path of the chapter at the cursor is looked up and,
\* when there is one, read from the archive
ReadChapterContent ==
    /\ current_chapter_href(navigator).ok
    /\ Query("read_chapter_content",
             [href |-> current_chapter_href(navigator).val,
              res |-> read_chapter_content(epub_file.entries,
                                           current_chapter_href(navigator).val)])

Next ==
    \/ Open
    \/ CreateNavigator
    \/ NavNext
    \/ NavPrev
    \/ NavGoto
    \/ QueryHref
    \/ QueryId
    \/ QueryPosition
    \/ QueryTotal
    \/ ReadChapterContent

Spec == Init /\ [][Next]_vars

\* ------------------------------------------------------------------------
\* One document serving several Navigators (main.rs:39 and ui/mod.rs:48 each
\* create one).  Here last.arg is the number of the Navigator called and
\* last.before holds all Navigators as they were before the call.
\* ------------------------------------------------------------------------
NavsFiles ==
    { EpubFile(dir, Some(OPF_MIME_TYPE),
               Package(<< Item(Some("ch1"), Some(<< "a" >>), XHTML, None),
                          Item(Some("ch2"), Some(Ch2Href), XHTML, None) >>,
                       None, ItemrefsOf(ids)),
               ChapterEntries(dir)) :
        dir \in RootDirs,
        ids \in { << >>, << "ch1" >>, << "ch2", "ch1" >>, << "ch1", "ghost", "ch2" >> } }
    \cup
    { EpubFile(dir, Some(OPF_MIME_TYPE),
               Package(<< Item(Some("ch1"), Some(<< "a" >>), XHTML, None),
                          Item(Some("ch2"), Some(Ch2Href), XHTML, None),
                          Item(Some("nav"), Some(NavName), XHTML, Some("nav")) >>,
                       None, ItemrefsOf(<< "ch1", "ch2" >>)),
               ChapterEntries(dir)
               @@ (InDir(dir, NavName) :> HtmlEntry(<< GoodAnchor, OtherAnchor >>))) :
        dir \in RootDirs }

NavsInit ==
    /\ epub_file \in NavsFiles
    /\ epub_doc = NoDoc
    /\ io_log = NoLog
    /\ has_nav = FALSE
    /\ navigator = NoNavigator
    /\ last = [NoCall EXCEPT !.before = << >>]
    /\ run = NoRun
    /\ navigators = << >>
    /\ path_call = NoPathCall
    /\ metadata = NoMetadataCall
    /\ app = NoApp

\* a call on Navigator number who that leaves the Navigators as navs
Called(op, who, ret, out, navs) ==
    /\ navigators' = navs
    /\ last' = [op |-> op, arg |-> who, ret |-> ret, before |-> navigators, out |-> out]
    /\ UNCHANGED << epub_file, epub_doc, io_log, has_nav, navigator, run, path_call,
                    metadata, app >>

NavsNew ==
    /\ epub_doc.state = "open"
    /\ Len(navigators) < MaxNavigators
    /\ Called("new", Len(navigators) + 1, FALSE, << >>,
              Append(navigators, create_navigator(epub_doc)))

NavsNext ==
    \E i \in 1..Len(navigators) :
        Called("next", i, next(navigators[i]).ret, << >>,
               [navigators EXCEPT ![i] = next(navigators[i]).self])

NavsPrev ==
    \E i \in 1..Len(navigators) :
        Called("prev", i, prev(navigators[i]).ret, << >>,
               [navigators EXCEPT ![i] = prev(navigators[i]).self])

NavsGoto ==
    \E i \in 1..Len(navigators) :
        \E n \in 0 .. (Len(navigators[i].spine_ids) + 1) :
            Called("goto", i, goto(navigators[i], n).ret, << n >>,
                   [navigators EXCEPT ![i] = goto(navigators[i], n).self])

NavsQuery ==
    \E i \in 1..Len(navigators) :
        \/ Called("current_chapter_href", i, FALSE,
                  current_chapter_href(navigators[i]), navigators)
        \/ Called("current_chapter_id", i, FALSE,
                  current_chapter_id(navigators[i]), navigators)
        \/ Called("current_position", i, FALSE,
                  current_position(navigators[i]), navigators)
        \/ Called("total_chapters", i, FALSE,
                  << total_chapters(navigators[i]) >>, navigators)
        \/ Called("get_toc", i, FALSE, get_toc(navigators[i]), navigators)

NavsRead ==
    \E i \in 1..Len(navigators) :
        /\ current_chapter_href(navigators[i]).ok
        /\ Called("read_chapter_content", i, FALSE,
                  [href |-> current_chapter_href(navigators[i]).val,
                   res |-> read_chapter_content(
                              epub_file.entries,
                              current_chapter_href(navigators[i]).val)],
                  navigators)

NavsStep ==
    \/ Open
    \/ NavsNew
    \/ NavsNext
    \/ NavsPrev
    \/ NavsGoto
    \/ NavsQuery
    \/ NavsRead

NavsSpec == NavsInit /\ [][NavsStep]_vars

\* ------------------------------------------------------------------------
\* The path helpers called by themselves
\* ------------------------------------------------------------------------
PathChars == { "a", ".", SLASH, "\\", "#" }
\* k times "../", then the file name "a"
RECURSIVE UpRef(_)
UpRef(k) == IF k = 0 THEN << "a" >> ELSE DOTDOT \o << SLASH >> \o UpRef(k - 1)
Paths == SeqsUpTo(PathChars, MaxPathLen) \cup { UpRef(k) : k \in 1..MaxUp }
\* the directories a TOC document may be in
BaseDirs == { Empty, << "O" >>, << "O", SLASH, "T" >> }

PathInit ==
    /\ epub_file = GoodFile
    /\ epub_doc = NoDoc
    /\ io_log = NoLog
    /\ has_nav = FALSE
    /\ navigator = NoNavigator
    /\ last = NoCall
    /\ run = NoRun
    /\ navigators = << >>
    /\ path_call \in [fn : { "none" }, base : BaseDirs, arg : Paths, outs : { << >> }]
    /\ metadata = NoMetadataCall
    /\ app = NoApp

PathFrame ==
    UNCHANGED << epub_file, epub_doc, io_log, has_nav, navigator, last, run, navigators,
                 metadata, app >>

\* normalize_path_simple on the path, then once more on its own result
CallNormalize ==
    /\ path_call.base = Empty
    /\ path_call.fn \in { "none", "normalize" }
    /\ Len(path_call.outs) < 2
    /\ path_call' =
          [path_call EXCEPT
              !.fn = "normalize",
              !.outs = Append(@, normalize_path_simple(
                                    IF @ = << >> THEN path_call.arg ELSE @[Len(@)]))]
    /\ PathFrame

\* resolve_relative_path of the reference against the directory
CallResolve ==
    /\ path_call.fn = "none"
    /\ path_call' =
          [path_call EXCEPT
              !.fn = "resolve",
              !.outs = << resolve_relative_path(path_call.base, path_call.arg) >>]
    /\ PathFrame

PathNext ==
    \/ CallNormalize
    \/ CallResolve

PathSpec == PathInit /\ [][PathNext]_vars

\* ------------------------------------------------------------------------
\* Metadata::parse called by itself on a metadata element
\* ------------------------------------------------------------------------
MaxMeta == 3

\* Metadata::default()
Metadata_default ==
    [title |-> None, creator |-> None, language |-> None,
     identifier |-> None, publisher |-> None, date |-> None]

\* the element names Metadata::parse matches
MetadataNames == { "title", "creator", "language", "identifier", "publisher", "date" }

\* one round of the loop: the arm of the match that child's local name takes
MetadataArm(md, child) ==
    CASE child.name = "title"      -> [md EXCEPT !.title = child.text]
      [] child.name = "creator"    -> [md EXCEPT !.creator = child.text]
      [] child.name = "language"   -> [md EXCEPT !.language = child.text]
      [] child.name = "identifier" -> [md EXCEPT !.identifier = child.text]
      [] child.name = "publisher"  -> [md EXCEPT !.publisher = child.text]
      [] child.name = "date"       -> [md EXCEPT !.date = child.text]
      [] OTHER                     -> md

RECURSIVE MetadataLoop(_, _)
MetadataLoop(children, md) ==
    IF Len(children) = 0 THEN md
    ELSE MetadataLoop(Tail(children), MetadataArm(md, Head(children)))

\* Metadata::parse
Metadata_parse(metadata_node) ==
    Ok(MetadataLoop(metadata_node.children, Metadata_default))

\* the children tried: the recognized names and one that is not, each empty
\* (text() is None) or with one of two texts
MetadataTexts == { None, Some(<< "a" >>), Some(<< "b" >>) }
MetadataChildren ==
    { Txt(name, text) : name \in MetadataNames \cup { "subject" }, text \in MetadataTexts }
MetadataNodes ==
    { El("metadata", NoAttrs, c) : c \in SeqsUpTo(MetadataChildren, MaxMeta) }

MetaInit ==
    /\ epub_file = GoodFile
    /\ epub_doc = NoDoc
    /\ io_log = NoLog
    /\ has_nav = FALSE
    /\ navigator = NoNavigator
    /\ last = NoCall
    /\ run = NoRun
    /\ navigators = << >>
    /\ path_call = NoPathCall
    /\ metadata \in [node : MetadataNodes, parsed : { None }]
    /\ app = NoApp

ParseMetadata ==
    /\ metadata.parsed = None
    /\ metadata' = [metadata EXCEPT !.parsed = Some(Metadata_parse(metadata.node))]
    /\ UNCHANGED << epub_file, epub_doc, io_log, has_nav, navigator, last, run,
                    navigators, path_call, app >>

MetaSpec == MetaInit /\ [][ParseMetadata]_vars

\* ------------------------------------------------------------------------
\* open() on files that differ in their TOC document only
\* ------------------------------------------------------------------------
MaxPoints == 3
MaxAnchors == 2

\* what a navPoint may lack: nothing, the characters of its label, its
\* navLabel, its content element
PointKinds == { "ok", "blank", "nolabel", "nocontent" }

\* navPoint number i of a document: its id, label and src carry the number
PointOf(i, kind, children) ==
    [NavPoint(CASE kind = "nolabel" -> None
                [] kind = "blank"   -> Some(Some(<< " " >>))
                [] OTHER            -> Some(Some(<< " ", ToString(i), " " >>)),
              IF kind = "nocontent" THEN None ELSE Some(<< ToString(i) >>),
              children)
     EXCEPT !.attrs = "id" :> ToString(i)]

\* the navPoints whose parent is number p (0: the navMap), where parent[i] < i
\* is the parent of number i
RECURSIVE PointsUnder(_, _, _, _)
PointsUnder(p, i, parent, kinds) ==
    IF i > Len(parent) THEN << >>
    ELSE (IF parent[i] = p
          THEN << PointOf(i, kinds[i], PointsUnder(i, i + 1, parent, kinds)) >>
          ELSE << >>)
         \o PointsUnder(p, i + 1, parent, kinds)

Parents(n) == { parent \in [1..n -> 0..(n - 1)] : \A i \in 1..n : parent[i] < i }

\* navPoints with an empty src, a content element without src, a navLabel
\* without text element, a text element without text
OddPoints ==
    << NavPoint(Some(Some(<< "E" >>)), Some(Empty), << GoodPoint >>),
       El("navPoint", "id" :> "c", << El("navLabel", NoAttrs, << Txt("text", Some(<< "C" >>)) >>),
                                      El("content", NoAttrs, << >>) >>),
       El("navPoint", "id" :> "l", << El("navLabel", NoAttrs, << >>),
                                      El("content", "src" :> << "l" >>, << >>),
                                      UpPoint >>),
       NavPoint(Some(None), Some(<< "t" >>), << >>) >>

TocNcxDocs ==
    { Ncx(PointsUnder(0, 1, parent, kinds)) :
        parent \in UNION { Parents(n) : n \in 0..MaxPoints },
        kinds \in [1..MaxPoints -> PointKinds] }
    \cup { Ncx(OddPoints) }

EmptyHrefAnchor == Anchor(Some(Empty), << "E" >>)
TocAnchors == { GoodAnchor, BlankAnchor, NoHrefAnchor, OtherAnchor, EmptyHrefAnchor }
TocNavDocs == SeqsUpTo(TocAnchors, MaxAnchors)

TocOnlyFiles ==
    { EpubFile(<< "O" >>, Some(OPF_MIME_TYPE),
               Package(<< Item(Some("ch1"), Some(<< "a" >>), XHTML, None),
                          Item(Some("ncx"), Some(NcxName),
                               Some("application/x-dtbncx+xml"), None) >>,
                       Some("ncx"), ItemrefsOf(<< "ch1" >>)),
               ChapterEntries(<< "O" >>)
               @@ (InDir(<< "O" >>, NcxName) :> XmlEntry(doc))) :
        doc \in TocNcxDocs }
    \cup
    { EpubFile(dir, Some(OPF_MIME_TYPE),
               Package(<< Item(Some("ch1"), Some(<< "a" >>), XHTML, None),
                          Item(Some("nav"), Some(NavName), XHTML, Some("nav")) >>,
                       None, ItemrefsOf(<< "ch1" >>)),
               ChapterEntries(dir) @@ (InDir(dir, NavName) :> HtmlEntry(doc))) :
        dir \in RootDirs, doc \in TocNavDocs }

TocInit ==
    /\ epub_file \in TocOnlyFiles
    /\ epub_doc = NoDoc
    /\ io_log = NoLog
    /\ has_nav = FALSE
    /\ navigator = NoNavigator
    /\ last = NoCall
    /\ run = NoRun
    /\ navigators = << >>
    /\ path_call = NoPathCall
    /\ metadata = NoMetadataCall
    /\ app = NoApp

TocSpec == TocInit /\ [][Open]_vars

\* ------------------------------------------------------------------------
\* The user interface: App (ui/mod.rs).  A message made by format! is the
\* format text with its arguments; the text shown for a chapter is the
\* rendering of the entry read.  Besides the fields of App the record holds
\* the last key handled (key) and the paths read_chapter_content() was asked
\* for while the last event, or the start-up, was handled (reads).
\* ------------------------------------------------------------------------
U16_MAX == 65535

Msg(text, args) == [text |-> text, args |-> args]
render_xhtml_to_text(content) == [kind |-> "rendered", source |-> content]
NoKey == [code |-> "none", ch |-> "", modifiers |-> "NONE"]

\* App::new
App_new(doc) ==
    [started |-> TRUE,
     navigator |-> create_navigator(doc),
     current_content |-> [kind |-> "empty"],
     command_input |-> Empty,
     mode |-> "Normal",
     status_message |-> Msg("", << >>),
     scroll_offset |-> 0,
     toc_scroll_offset |-> 0,
     should_quit |-> FALSE,
     show_metadata |-> FALSE,
     show_toc |-> FALSE,
     key |-> NoKey,
     reads |-> << >>]

\* the position as the status line shows it
PositionMsg(self) ==
    Msg("Capitulo {} de {}",
        << current_position(self.navigator)[1], current_position(self.navigator)[2] >>)

\* the Ok(href) arm of load_current_chapter, rd being what the read returned
ChapterRead(self, href, rd) ==
    IF rd.ok
    THEN [self EXCEPT !.current_content = render_xhtml_to_text(rd.val),
                      !.scroll_offset = 0,
                      !.status_message = PositionMsg(self),
                      !.reads = Append(@, href)]
    ELSE [self EXCEPT !.current_content =
                          [kind |-> "Error al leer el capitulo: {}", err |-> rd.err],
                      !.status_message = Msg("Error al cargar el capitulo", << >>),
                      !.reads = Append(@, href)]

\* ChapterLookedUp() ending the session when the lookup fails
ChapterLookedUp_lookup_error_quits(self, archive, lk) ==
    IF lk.ok THEN ChapterRead(self, lk.val, read_chapter_content(archive, lk.val))
    ELSE [self EXCEPT !.should_quit = TRUE,
                      !.current_content =
                          [kind |-> "Error al obtener la ruta del capitulo: {}",
                           err |-> lk.err],
                      !.status_message =
                          Msg("Error al obtener la ruta del capitulo", << >>)]

\* the match on current_chapter_href(), lk being what the lookup returned
ChapterLookedUp(self, archive, lk) ==
    IF lk.ok THEN ChapterRead(self, lk.val, read_chapter_content(archive, lk.val))
    ELSE [self EXCEPT !.current_content =
                          [kind |-> "Error al obtener la ruta del capitulo: {}",
                           err |-> lk.err],
                      !.status_message =
                          Msg("Error al obtener la ruta del capitulo", << >>)]

\* App::load_current_chapter
load_current_chapter(self, archive) ==
    ChapterLookedUp(self, archive, current_chapter_href(self.navigator))

\* the true arm of next_chapter, prev_chapter and goto_chapter: the chapter
\* is loaded, then the status line is set to the position
Moved(self, archive, nav) ==
    [load_current_chapter([self EXCEPT !.navigator = nav], archive)
     EXCEPT !.status_message = PositionMsg([self EXCEPT !.navigator = nav])]

\* next_chapter() loading the chapter again when next() returned false
next_chapter_always_loads(self, archive) ==
    IF next(self.navigator).ret THEN Moved(self, archive, next(self.navigator).self)
    ELSE [load_current_chapter(self, archive)
          EXCEPT !.status_message = Msg("Ya estas en el ultimo capitulo", << >>)]

\* App::next_chapter
next_chapter(self, archive) ==
    IF next(self.navigator).ret THEN Moved(self, archive, next(self.navigator).self)
    ELSE [self EXCEPT !.status_message = Msg("Ya estas en el ultimo capitulo", << >>)]

\* App::prev_chapter
prev_chapter(self, archive) ==
    IF prev(self.navigator).ret THEN Moved(self, archive, prev(self.navigator).self)
    ELSE [self EXCEPT !.status_message = Msg("Ya estas en el primer capitulo", << >>)]

\* App::goto_chapter
goto_chapter(self, archive, index) ==
    IF goto(self.navigator, index).ret
    THEN Moved(self, archive, goto(self.navigator, index).self)
    ELSE [self EXCEPT !.status_message = Msg("Capitulo {} no valido", << index >>)]

\* str::to_lowercase on the letters of the model
UpperCase == << "N", "G" >>
LowerCase == << "n", "g" >>
ToLowerChar(c) ==
    IF \E i \in 1..Len(UpperCase) : UpperCase[i] = c
    THEN LowerCase[CHOOSE i \in 1..Len(UpperCase) : UpperCase[i] = c]
    ELSE c
ToLowercase(s) == [i \in 1..Len(s) |-> ToLowerChar(s[i])]

\* str::split_whitespace: the non-empty pieces between blanks
SplitWhitespace(s) == SelectSeq(Split(s, " "), LAMBDA piece : piece # Empty)

\* str::parse::<usize>: decimal digits after an optional '+'
Digits == << "0", "1", "2", "3", "4", "5", "6", "7", "8", "9" >>
IsDigit(c) == \E i \in 1..Len(Digits) : Digits[i] = c
DigitValue(c) == (CHOOSE i \in 1..Len(Digits) : Digits[i] = c) - 1
RECURSIVE DecimalValue(_, _)
DecimalValue(s, acc) ==
    IF Len(s) = 0 THEN acc ELSE DecimalValue(Tail(s), 10 * acc + DigitValue(Head(s)))
ParseUsize(s) ==
    IF StartsWith(s, "+") /\ Len(s) > 1 /\ \A i \in 2..Len(s) : IsDigit(s[i])
    THEN Ok(DecimalValue(Tail(s), 0))
    ELSE IF Len(s) > 0 /\ \A i \in 1..Len(s) : IsDigit(s[i])
    THEN Ok(DecimalValue(s, 0))
    ELSE Err("ParseIntError", << >>)

\* a command word as the characters typed
Q == << "q" >>
QUIT == << "q", "u", "i", "t" >>
N_ == << "n" >>
NEXT == << "n", "e", "x", "t" >>
P_ == << "p" >>
PREV == << "p", "r", "e", "v" >>
G_ == << "g" >>
GOTO == << "g", "o", "t", "o" >>
T_ == << "t" >>
TOC == << "t", "o", "c" >>
M_ == << "m" >>
META == << "m", "e", "t", "a" >>

\* the g and goto arm: the chapter number is parsed, then gone to
GotoParsed(self, archive, index_str, parsed) ==
    IF parsed.ok THEN goto_chapter(self, archive, parsed.val)
    ELSE [self EXCEPT !.status_message =
                          Msg("Numero de capitulo invalido: {}", << index_str >>)]

\* the match of process_command with a toc arm that leaves show_metadata
CommandArm_toc_keeps_metadata(self, archive, cmd, parts) ==
    IF parts \in { << Q >>, << QUIT >> } THEN [self EXCEPT !.should_quit = TRUE]
    ELSE IF parts \in { << N_ >>, << NEXT >> } THEN next_chapter(self, archive)
    ELSE IF parts \in { << P_ >>, << PREV >> } THEN prev_chapter(self, archive)
    ELSE IF Len(parts) = 2 /\ parts[1] \in { G_, GOTO }
    THEN GotoParsed(self, archive, parts[2], ParseUsize(parts[2]))
    ELSE IF parts \in { << T_ >>, << TOC >> }
    THEN [self EXCEPT !.show_toc = TRUE, !.toc_scroll_offset = 0]
    ELSE IF parts \in { << M_ >>, << META >> }
    THEN [self EXCEPT !.show_metadata = TRUE, !.show_toc = FALSE]
    ELSE IF parts = << >> THEN self
    ELSE [self EXCEPT !.status_message = Msg("Comando desconocido: {}", << cmd >>)]

\* the match of process_command on the words of the command
CommandArm(self, archive, cmd, parts) ==
    IF parts \in { << Q >>, << QUIT >> } THEN [self EXCEPT !.should_quit = TRUE]
    ELSE IF parts \in { << N_ >>, << NEXT >> } THEN next_chapter(self, archive)
    ELSE IF parts \in { << P_ >>, << PREV >> } THEN prev_chapter(self, archive)
    ELSE IF Len(parts) = 2 /\ parts[1] \in { G_, GOTO }
    THEN GotoParsed(self, archive, parts[2], ParseUsize(parts[2]))
    ELSE IF parts \in { << T_ >>, << TOC >> }
    THEN [self EXCEPT !.show_toc = TRUE, !.show_metadata = FALSE,
                      !.toc_scroll_offset = 0]
    ELSE IF parts \in { << M_ >>, << META >> }
    THEN [self EXCEPT !.show_metadata = TRUE, !.show_toc = FALSE]
    ELSE IF parts = << >> THEN self
    ELSE [self EXCEPT !.status_message = Msg("Comando desconocido: {}", << cmd >>)]

\* App::process_command
process_command(self, archive) ==
    [CommandArm(self, archive, ToLowercase(Trim(self.command_input)),
                SplitWhitespace(ToLowercase(Trim(self.command_input))))
     EXCEPT !.command_input = Empty, !.mode = "Normal"]

\* u16::saturating_add and saturating_sub
SaturatingAdd(x, n) == IF x + n > U16_MAX THEN U16_MAX ELSE x + n
SaturatingSub(x, n) == IF x < n THEN 0 ELSE x - n

Char(key, c) == key.code = "Char" /\ key.ch = c

\* Normal mode while the table of contents is shown
TocKey(self, key) ==
    IF Char(key, "j")
    THEN [self EXCEPT !.toc_scroll_offset = SaturatingAdd(@, 1)]
    ELSE IF Char(key, "k")
    THEN [self EXCEPT !.toc_scroll_offset = SaturatingSub(@, 1)]
    ELSE IF key.code = "Esc"
    THEN [self EXCEPT !.show_toc = FALSE, !.toc_scroll_offset = 0]
    ELSE self

\* Normal mode while the chapter is shown: the arms are tried in order
ContentKey(self, archive, key) ==
    IF Char(key, "j") THEN [self EXCEPT !.scroll_offset = SaturatingAdd(@, 1)]
    ELSE IF Char(key, "k") THEN [self EXCEPT !.scroll_offset = SaturatingSub(@, 1)]
    ELSE IF Char(key, "d") /\ key.modifiers = "CONTROL"
    THEN [self EXCEPT !.scroll_offset = SaturatingAdd(@, 10)]
    ELSE IF Char(key, "u") /\ key.modifiers = "CONTROL"
    THEN [self EXCEPT !.scroll_offset = SaturatingSub(@, 10)]
    ELSE IF Char(key, "g") /\ key.modifiers = "SHIFT"
    THEN [self EXCEPT !.scroll_offset = U16_MAX]
    ELSE IF Char(key, "g") THEN [self EXCEPT !.scroll_offset = 0]
    ELSE IF Char(key, "n") THEN next_chapter(self, archive)
    ELSE IF Char(key, "p") THEN prev_chapter(self, archive)
    ELSE IF Char(key, ":") THEN [self EXCEPT !.mode = "Command", !.command_input = Empty]
    ELSE IF Char(key, "q") THEN [self EXCEPT !.should_quit = TRUE]
    ELSE IF key.code = "Esc" THEN [self EXCEPT !.show_toc = FALSE, !.show_metadata = FALSE]
    ELSE self

\* Command mode
CommandKey(self, archive, key) ==
    IF key.code = "Enter" THEN process_command(self, archive)
    ELSE IF key.code = "Char" THEN [self EXCEPT !.command_input = Append(@, key.ch)]
    ELSE IF key.code = "Backspace"
    THEN [self EXCEPT !.command_input =
                          IF Len(@) = 0 THEN @ ELSE SubSeq(@, 1, Len(@) - 1)]
    ELSE IF key.code = "Esc" THEN [self EXCEPT !.command_input = Empty, !.mode = "Normal"]
    ELSE self

\* App::handle_key_event
handle_key_event(self, archive, key) ==
    IF self.mode = "Normal"
    THEN IF self.show_toc THEN TocKey(self, key) ELSE ContentKey(self, archive, key)
    ELSE CommandKey(self, archive, key)

\* --- the application as a state machine: main and run_app ----------------
MaxScroll == 1

\* packages whose third chapter has no entry in the archive and whose spines
\* may name an id the manifest lacks
AppPackage(ids) ==
    Package(<< Item(Some("ch1"), Some(<< "a" >>), XHTML, None),
               Item(Some("ch2"), Some(Ch2Href), XHTML, None),
               Item(Some("ch3"), Some(<< "m" >>), XHTML, None) >>,
            None, ItemrefsOf(ids))
AppSpines ==
    { << >>, << "ch1" >>, << "ch3", "ch1" >>, << "ch1", "ghost", "ch2" >> }
AppFiles ==
    { EpubFile(<< "O" >>, Some(OPF_MIME_TYPE), AppPackage(ids), ChapterEntries(<< "O" >>)) :
        ids \in AppSpines }
    \cup
    { EpubFile(Empty, Some(OPF_MIME_TYPE), AppPackage(<< "ghost", "ch1" >>),
               ChapterEntries(Empty)) }

\* the command lines typed
CommandLines ==
    { << "n" >>, << "p" >>, << "q" >>, << "t" >>, << "m" >>, << "x" >>,
      << " ", "N", " " >>, TOC,
      << "g", " ", "0" >>, << "g", " ", "1" >>, << "g", " ", "2" >>,
      << "g", " ", "3" >>, << "g", " ", "x" >>, << "g", " ", "+", "2" >>,
      << "g", " ", "1", " ", "2" >> }
\* what the command line may hold while one of them is typed
Typed == UNION { { SubSeq(line, 1, k) : k \in 0..Len(line) } : line \in CommandLines }
CommandChars == UNION { { line[i] : i \in 1..Len(line) } : line \in CommandLines }

KeyOf(code, ch, modifiers) == [code |-> code, ch |-> ch, modifiers |-> modifiers]
\* the keys pressed in Normal mode: those with an arm of their own, and d
\* and Tab for the arm of all other keys
NormalKeys ==
    { KeyOf("Char", c, "NONE") : c \in { "j", "k", "g", "n", "p", ":", "q", "d" } }
    \cup { KeyOf("Char", "d", "CONTROL"), KeyOf("Char", "u", "CONTROL"),
           KeyOf("Char", "g", "SHIFT"), KeyOf("Esc", "", "NONE"),
           KeyOf("Tab", "", "NONE") }
CommandKeys ==
    { KeyOf("Char", c, "NONE") : c \in CommandChars }
    \cup { KeyOf(code, "", "NONE") : code \in { "Enter", "Esc", "Backspace", "Tab" } }

\* the scroll offsets followed: the first ones and the last one of the u16
\* range
ScrollKept(v) == v <= MaxScroll \/ v = U16_MAX

AppInit ==
    /\ epub_file \in AppFiles
    /\ epub_doc = NoDoc
    /\ io_log = NoLog
    /\ has_nav = FALSE
    /\ navigator = NoNavigator
    /\ last = NoCall
    /\ run = NoRun
    /\ navigators = << >>
    /\ path_call = NoPathCall
    /\ metadata = NoMetadataCall
    /\ app = NoApp

\* main.rs:39-46 and run_app's first statement: main makes a Navigator to
\* count the chapters and exits when there is none; else the App is made and
\* the first chapter loaded
AppStart ==
    /\ epub_doc.state = "open"
    /\ ~has_nav
    /\ has_nav' = TRUE
    /\ navigator' = create_navigator(epub_doc)
    /\ app' = IF total_chapters(create_navigator(epub_doc)) = 0 THEN app
              ELSE load_current_chapter(App_new(epub_doc), epub_file.entries)
    /\ UNCHANGED << epub_file, epub_doc, io_log, last, run, navigators, path_call,
                    metadata >>

\* the App after a key, kept when its offsets and command line are followed
KeyHandled(after) ==
    /\ ScrollKept(after.scroll_offset)
    /\ ScrollKept(after.toc_scroll_offset)
    /\ after.command_input \in Typed
    /\ app' = after

\* one round of run_app's loop in which a key press arrives
KeyEvent ==
    /\ app.started
    /\ ~app.should_quit
    /\ \E key \in (IF app.mode = "Normal" THEN NormalKeys ELSE CommandKeys) :
          KeyHandled(handle_key_event([app EXCEPT !.key = key, !.reads = << >>],
                                      epub_file.entries, key))
    /\ UNCHANGED << epub_file, epub_doc, io_log, has_nav, navigator, last, run,
                    navigators, path_call, metadata >>

AppNext ==
    \/ Open
    \/ AppStart
    \/ KeyEvent

AppSpec == AppInit /\ [][AppNext]_vars

\* ------------------------------------------------------------------------
\* Properties of the Navigator
\* ------------------------------------------------------------------------
Cursor == navigator.current_spine_index
SpineLen == Len(navigator.spine_ids)
IsMove == last.op \in { "next", "prev", "goto" }
Min(a, b) == IF a < b THEN a ELSE b
Max(a, b) == IF a > b THEN a ELSE b

\* C1: after Navigator::new and any sequence of next(), prev() and goto(n),
\* the cursor is a valid index whenever the spine is non-empty; it is never
\* negative (no underflow) and every mutating call leaves it either at a
\* valid index or at its prior value.
C1_CursorInBounds ==
    has_nav =>
        /\ Cursor >= 0
        /\ SpineLen > 0 => Cursor < SpineLen
        /\ IsMove => \/ Cursor = last.before.current_spine_index
                      \/ (0 <= Cursor /\ Cursor < SpineLen)

\* prev() was refused at the first chapter of a spine of several chapters
C1_Witness ==
    /\ has_nav /\ SpineLen >= 2
    /\ last.op = "prev" /\ ~last.ret
    /\ last.before.current_spine_index = 0 /\ Cursor = 0

\* C2: for a non-empty spine total_chapters() is the length of the document's
\* spine, and goto(k) with 1 <= k <= total_chapters() returns true, sets the
\* cursor to k-1 and makes current_position() return (k, total_chapters()),
\* whatever the cursor was before.
C2_GotoValid ==
    (has_nav /\ SpineLen > 0) =>
        /\ total_chapters(navigator) = Len(epub_doc.spine_ids)
        /\ (last.op = "goto" /\ 1 <= last.arg
                /\ last.arg <= total_chapters(last.before)) =>
              /\ last.ret
              /\ Cursor = last.arg - 1
              /\ current_position(navigator)
                    = << last.arg, total_chapters(navigator) >>

\* goto(last chapter) succeeded from another chapter
C2_Witness ==
    /\ has_nav /\ SpineLen >= 2
    /\ last.op = "goto" /\ last.arg = SpineLen /\ last.ret
    /\ last.before.current_spine_index # last.arg - 1
    /\ Cursor = SpineLen - 1

\* C3: goto(0), goto(n) with n > total_chapters(), and any goto on an empty
\* spine return false and leave the navigator as it was.
C3_GotoInvalid ==
    (has_nav /\ last.op = "goto"
        /\ (last.arg = 0 \/ last.arg > total_chapters(last.before)
                \/ Len(last.before.spine_ids) = 0)) =>
        (~last.ret /\ navigator = last.before)

\* goto(total_chapters()+1) was refused away from the first chapter
C3_Witness ==
    /\ has_nav /\ SpineLen >= 2
    /\ last.op = "goto" /\ last.arg = SpineLen + 1 /\ ~last.ret
    /\ Cursor > 0 /\ Cursor = last.before.current_spine_index

\* C4: in a run of consecutive next() calls that began at index s of a spine
\* of N >= 1 chapters, the j-th call returns true exactly when s + j <= N-1
\* and leaves the cursor at min(s + j, N-1): from a fresh navigator N-1 calls
\* return true and reach N-1, one more returns false and stays there.
\* Symmetrically a run of prev() calls from index s returns true exactly when
\* s - j >= 0 and leaves the cursor at max(s - j, 0).
C4_NextPrevRuns ==
    (has_nav /\ SpineLen >= 1) =>
        /\ run.op = "next" =>
              /\ last.ret = (run.start + run.len <= SpineLen - 1)
              /\ Cursor = Min(run.start + run.len, SpineLen - 1)
        /\ run.op = "prev" =>
              /\ last.ret = (run.start - run.len >= 0)
              /\ Cursor = Max(run.start - run.len, 0)

\* the N-th next() from a fresh navigator was refused at the last chapter
C4_Witness ==
    /\ has_nav /\ SpineLen >= 2
    /\ run.op = "next" /\ run.start = 0 /\ run.len = SpineLen
    /\ ~last.ret /\ Cursor = SpineLen - 1

\* C5: current_chapter_href() fails with InvalidChapterIndex on an empty
\* spine, fails with ManifestItemNotFound carrying the spine id when that id
\* has no manifest entry, succeeds otherwise, and never changes the navigator.
C5_HrefErrors ==
    (has_nav /\ last.op = "current_chapter_href") =>
        /\ navigator = last.before
        /\ SpineLen = 0 =>
              (~last.out.ok /\ last.out.err = "InvalidChapterIndex")
        /\ SpineLen > 0 =>
              LET id == navigator.spine_ids[Cursor + 1] IN
              IF id \in DOMAIN epub_doc.manifest
              THEN last.out.ok
              ELSE /\ ~last.out.ok
                   /\ last.out.err = "ManifestItemNotFound"
                   /\ last.out.arg = << id >>

\* the lookup failed for a spine id that is not in the manifest
C5_Witness ==
    /\ has_nav /\ last.op = "current_chapter_href"
    /\ Cursor > 0
    /\ ~last.out.ok /\ last.out.err = "ManifestItemNotFound"
    /\ last.out.arg = << "ghost" >>

\* C6: on success current_chapter_href() returns build_full_path(root_path,
\* href) of the manifest item at the cursor, for every root directory and
\* every href, also those with '.' or '..' segments or repeated slashes.
C6_HrefIsJoinRoot ==
    (has_nav /\ last.op = "current_chapter_href" /\ last.out.ok) =>
        last.out.val
          = build_full_path(navigator.root_path,
                            navigator.manifest[navigator.spine_ids[Cursor + 1]].href)

\* C7 as stated: with an empty spine no position query returns a position.
ReturnsPosition ==
    \/ last.op = "current_position" /\ Len(last.out) = 2
    \/ last.op = "current_chapter_href" /\ last.out.ok
    \/ last.op = "current_chapter_id" /\ IsSome(last.out)
C7_EmptySpineNoPosition ==
    (has_nav /\ SpineLen = 0) => ~ReturnsPosition

\* C7, amended: with an empty spine current_chapter_id() reports absence and
\* current_chapter_href() fails with InvalidChapterIndex, while
\* current_position() does not fail and returns (1, 0).
C7_EmptySpineQueries ==
    (has_nav /\ SpineLen = 0) =>
        /\ Cursor = 0
        /\ last.op = "current_chapter_id" => last.out = None
        /\ last.op = "current_chapter_href" =>
              (~last.out.ok /\ last.out.err = "InvalidChapterIndex")
        /\ last.op = "current_position" => last.out = << 1, 0 >>

\* current_position() was called on a navigator with an empty spine
C7_Witness ==
    has_nav /\ SpineLen = 0 /\ last.op = "current_position" /\ last.out = << 1, 0 >>

\* ------------------------------------------------------------------------
\* Properties of open() and its TOC discovery
\* ------------------------------------------------------------------------
\* the package element and the spine element of a file open() accepted
OpfPath(file) == parse_container(file.entries).res.val
PackageNode(file) ==
    LET root == Unwrap(file.entries[OpfPath(file)].xml)
    IN  IF root.name = "package" THEN root ELSE Unwrap(FindChild(root, "package"))
SpineNode(file) == Unwrap(FindChild(PackageNode(file), "spine"))

\* the container names a readable, well-formed descriptor whose package
\* element has metadata, manifest and spine, and manifest and spine parse
MandatorySectionsParse(file) ==
    /\ file.zip_ok
    /\ parse_container(file.entries).res.ok
    /\ read_entry_to_string(file.entries, OpfPath(file)).ok
    /\ IsSome(file.entries[OpfPath(file)].xml)
    /\ LET root == Unwrap(file.entries[OpfPath(file)].xml) IN
         root.name = "package" \/ IsSome(FindChild(root, "package"))
    /\ \A section \in { "metadata", "manifest", "spine" } :
           IsSome(FindChild(PackageNode(file), section))
    /\ parse_manifest(Unwrap(FindChild(PackageNode(file), "manifest"))).ok
    /\ parse_spine(SpineNode(file)).ok

InSeq(x, seq) == \E i \in 1..Len(seq) : seq[i] = x
TocWarnings ==
    { "nav_unreadable", "nav_empty", "nav_parse_error", "toc_id_not_in_manifest",
      "ncx_unreadable", "ncx_empty", "ncx_parse_error", "no_toc" }

\* C8: once metadata, manifest and spine have parsed, open() succeeds whatever
\* TOC discovery meets; a failed open() never got as far as TOC discovery and
\* never reports a TOC error.
C8_TocNeverFatal ==
    epub_doc.state # "none" =>
        /\ MandatorySectionsParse(epub_file) => epub_doc.state = "open"
        /\ epub_doc.state = "failed" =>
              /\ epub_doc.err \notin { "TocParseError", "TocNotFound" }
              /\ io_log.parsed = << >>
              /\ Len(io_log.reads) <= 2
              /\ \A w \in TocWarnings : ~InSeq(w, io_log.warnings)

\* open() succeeded with an empty TOC after both sources failed
C8_Witness ==
    /\ epub_doc.state = "open" /\ epub_doc.toc = << >>
    /\ io_log.warnings = << "nav_unreadable", "ncx_parse_error", "no_toc" >>

\* what TOC discovery met, read off the file and the log of open()
RootPath == epub_doc.root_path
MarkedNav == { id \in DOMAIN epub_doc.manifest :
                  epub_doc.manifest[id].properties = Some("nav") }
NavPathOf(id) == InDir(RootPath, epub_doc.manifest[id].href)
\* the nav document open() picked: the third entry it read
NavRead == MarkedNav # {} /\ Len(io_log.reads) >= 3
NavPath == io_log.reads[3]
\* the entries the nav source yields; none when it is absent, unreadable or
\* unparsable
NavYield ==
    IF ~NavRead \/ NavPath \notin DOMAIN epub_file.entries THEN << >>
    ELSE IF ~epub_file.entries[NavPath].utf8 THEN << >>
    ELSE IF InSeq("nav_parse_error", io_log.warnings) THEN << >>
    ELSE NavAnchorLoop(epub_file.entries[NavPath].anchors, << >>,
                       BasePathOf(NavPath), RootPath)
\* the NCX the spine's toc attribute names, when the manifest has it
NcxNamed ==
    /\ IsSome(Attr(SpineNode(epub_file), "toc"))
    /\ Unwrap(Attr(SpineNode(epub_file), "toc")) \in DOMAIN epub_doc.manifest
NcxPath ==
    InDir(RootPath, epub_doc.manifest[Unwrap(Attr(SpineNode(epub_file), "toc"))].href)
\* the entries the NCX source yields; none when it is not named, unreadable,
\* unparsable or without navMap
NcxYield ==
    IF ~NcxNamed \/ NcxPath \notin DOMAIN epub_file.entries THEN << >>
    ELSE LET r == parse_ncx(epub_file.entries[NcxPath], RootPath, NcxPath)
         IN  IF r.ok THEN r.val ELSE << >>

\* C9: when the manifest marks a navigation document and the nav parser
\* yields entries from it, those entries are the TOC and the NCX is neither
\* read nor parsed, even if the spine names a valid NCX.
C9_NavWins ==
    (epub_doc.state = "open" /\ InSeq("nav", io_log.parsed) /\ NavYield # << >>) =>
        /\ epub_doc.toc = NavYield
        /\ ~InSeq("ncx", io_log.parsed)
        /\ NcxNamed => ~InSeq(NcxPath, io_log.reads)
        /\ Len(io_log.reads) = 3

\* the nav document yielded entries in a package whose spine names an NCX
\* that would yield other entries
C9_Witness ==
    /\ epub_doc.state = "open" /\ InSeq("nav", io_log.parsed)
    /\ NavYield # << >> /\ epub_doc.toc = NavYield
    /\ NcxNamed /\ NcxYield # << >> /\ NcxYield # NavYield

\* C10: TOC discovery is the ordered fallback chain [nav document, NCX]: the
\* TOC is the first non-empty yield in that order and empty when both are
\* empty; the nav source is one of the marked items; when it yields nothing
\* the named NCX is read.
C10_FallbackChain ==
    epub_doc.state = "open" =>
        /\ epub_doc.toc = (IF NavYield # << >> THEN NavYield ELSE NcxYield)
        /\ MarkedNav # {} =>
              (NavRead /\ \E id \in MarkedNav : NavPath = NavPathOf(id))
        /\ (NavYield = << >> /\ NcxNamed) => InSeq(NcxPath, io_log.reads)

\* the nav document had no valid entry and the NCX supplied the TOC
C10_Witness ==
    /\ epub_doc.state = "open"
    /\ io_log.warnings = << "nav_empty" >>
    /\ io_log.parsed = << "nav", "ncx" >>
    /\ epub_doc.toc # << >> /\ epub_doc.toc = NcxYield

\* ------------------------------------------------------------------------
\* Properties of the stored hrefs
\* ------------------------------------------------------------------------
\* the item elements of the descriptor's manifest, in document order, and
\* the href attribute, as written, of the item that defines an id
ManifestNode(file) == Unwrap(FindChild(PackageNode(file), "manifest"))
DeclaredItems == ChildrenNamed(ManifestNode(epub_file), "item")
DeclaredHref(id) ==
    LET hits == SelectSeq(DeclaredItems, LAMBDA n : Attr(n, "id") = Some(id))
    IN  Unwrap(Attr(hits[Len(hits)], "href"))
IsNormalized(p) == normalize_path_simple(p) = p
HrefLookupDone == has_nav /\ last.op = "current_chapter_href" /\ last.out.ok
ManifestHrefAtCursor == navigator.manifest[navigator.spine_ids[Cursor + 1]].href

\* C11 as stated: once open() completes every href stored in the Manifest is
\* the normalized archive-root-relative form of the declared href and every
\* TocEntry href is normalized; the conversion was made at parse time, so
\* the Navigator's path lookup returns the stored href as it is.
C11_HrefsRootRelative ==
    epub_doc.state = "open" =>
        /\ \A id \in DOMAIN epub_doc.manifest :
              epub_doc.manifest[id].href = build_full_path(RootPath, DeclaredHref(id))
        /\ \A i \in 1..Len(epub_doc.toc) : IsNormalized(epub_doc.toc[i].href)
        /\ HrefLookupDone => last.out.val = ManifestHrefAtCursor

\* C11, amended: once open() completes every TocEntry href is a normalized
\* path, while every Manifest href is stored as the descriptor declares it
\* (relative to the descriptor's directory, not normalized) and stays so; the
\* root directory is put in front of it by the Navigator's path lookup, at
\* every call.
C11_HrefsAsParsed ==
    epub_doc.state = "open" =>
        /\ \A id \in DOMAIN epub_doc.manifest :
              epub_doc.manifest[id].href = DeclaredHref(id)
        /\ \A i \in 1..Len(epub_doc.toc) : IsNormalized(epub_doc.toc[i].href)
        /\ HrefLookupDone =>
              /\ ManifestHrefAtCursor
                    = DeclaredHref(navigator.spine_ids[Cursor + 1])
              /\ RootPath # Empty =>
                    /\ Len(last.out.val) > Len(RootPath) + 1
                    /\ SubSeq(last.out.val, 1, Len(RootPath) + 1)
                          = RootPath \o << SLASH >>
              /\ RootPath = Empty => Len(last.out.val) <= Len(ManifestHrefAtCursor)

\* a package in a sub-directory with a TOC: the lookup returned the stored
\* href behind the root directory
C11_Witness ==
    /\ epub_doc.state = "open" /\ RootPath = << "O" >> /\ Len(epub_doc.toc) > 0
    /\ HrefLookupDone
    /\ ManifestHrefAtCursor = << "a" >>
    /\ last.out.val = << "O", "/", "a" >>

\* ------------------------------------------------------------------------
\* Properties of the path helpers
\* ------------------------------------------------------------------------
Normalized == path_call.fn = "normalize" /\ Len(path_call.outs) >= 1
Resolved == path_call.fn = "resolve" /\ Len(path_call.outs) = 1
PathResult == path_call.outs[1]

\* C12: normalize is idempotent: normalizing the normalized path returns it
\* unchanged, for every path of ordinary segments, '.', '..', empty segments,
\* backslashes and an optional leading '/'.
C12_NormalizeIdempotent ==
    (path_call.fn = "normalize" /\ Len(path_call.outs) = 2) =>
        path_call.outs[2] = path_call.outs[1]

\* an absolute path with ".." was normalized twice
C12_Witness ==
    /\ path_call.fn = "normalize"
    /\ path_call.arg = << SLASH, ".", ".", SLASH, "a" >>
    /\ path_call.outs = << << SLASH, "a" >>, << SLASH, "a" >> >>

\* ------------------------------------------------------------------------
\* Properties of open(): the errors of the mandatory sections
\* ------------------------------------------------------------------------
Failed(e) == epub_doc.state = "failed" /\ epub_doc.err = e
\* the rootfile elements of the container document, in document order
Rootfiles(file) ==
    SelectSeq(Descendants(Unwrap(file.entries[CONTAINER_PATH].xml)),
              LAMBDA n : n.name = "rootfile")
ContainerParses(file) ==
    /\ file.zip_ok
    /\ CONTAINER_PATH \in DOMAIN file.entries
    /\ file.entries[CONTAINER_PATH].utf8
    /\ IsSome(file.entries[CONTAINER_PATH].xml)
\* the file with the expected media type on its rootfile
WithOpfMediaType(file) ==
    WithContainer(file,
        XmlEntry(Container(<< Rootfile(Attr(Rootfiles(file)[1], "full-path"),
                                       Some(OPF_MIME_TYPE)) >>)))
OddMediaType(file) ==
    /\ ContainerParses(file)
    /\ Len(Rootfiles(file)) > 0
    /\ IsSome(Attr(Rootfiles(file)[1], "full-path"))
    /\ Attr(Rootfiles(file)[1], "media-type") # Some(OPF_MIME_TYPE)

\* C13: open() fails with MissingContainerXml when the archive has no
\* container entry, with MissingRootfileElement when the container document
\* has no rootfile element and with MissingFullPathAttribute when the
\* rootfile has no full-path attribute; a rootfile whose media type is absent
\* or not the package media type is warned about and open() ends as it does
\* for the same file with the expected media type.
C13_ContainerErrors ==
    (epub_doc.state # "none" /\ epub_file.zip_ok) =>
        /\ CONTAINER_PATH \notin DOMAIN epub_file.entries =>
              Failed("MissingContainerXml")
        /\ ContainerParses(epub_file) =>
              /\ Len(Rootfiles(epub_file)) = 0 => Failed("MissingRootfileElement")
              /\ (Len(Rootfiles(epub_file)) > 0
                    /\ ~IsSome(Attr(Rootfiles(epub_file)[1], "full-path"))) =>
                    Failed("MissingFullPathAttribute")
        /\ OddMediaType(epub_file) =>
              /\ InSeq("rootfile_media_type", io_log.warnings)
              /\ \E hash_first \in HashFirsts, selector_ok \in BOOLEAN :
                    epub_doc = DocOf(open(WithOpfMediaType(epub_file),
                                          hash_first, selector_ok))
        /\ ~OddMediaType(epub_file) => ~InSeq("rootfile_media_type", io_log.warnings)

\* a package whose rootfile declares another media type was opened
C13_Witness ==
    /\ epub_doc.state = "open"
    /\ OddMediaType(epub_file)
    /\ Attr(Rootfiles(epub_file)[1], "media-type") = Some("text/xml")
    /\ InSeq("rootfile_media_type", io_log.warnings)

\* open() has returned and main has not gone on yet
OpenReturned == epub_doc.state # "none" /\ ~has_nav
\* the descriptor the container names is readable, well-formed XML
DescriptorParses(file) ==
    /\ file.zip_ok
    /\ parse_container(file.entries).res.ok
    /\ read_entry_to_string(file.entries, OpfPath(file)).ok
    /\ IsSome(file.entries[OpfPath(file)].xml)
DescriptorRoot(file) == Unwrap(file.entries[OpfPath(file)].xml)
HasChild(node, name) == \E i \in 1..Len(node.children) : node.children[i].name = name
HasPackage(file) ==
    DescriptorRoot(file).name = "package" \/ HasChild(DescriptorRoot(file), "package")
Lacking(file) ==
    { sec \in { "metadata", "manifest", "spine" } : ~HasChild(PackageNode(file), sec) }
ItemComplete(n) ==
    IsSome(Attr(n, "id")) /\ IsSome(Attr(n, "href")) /\ IsSome(Attr(n, "media-type"))
ItemsComplete(file) ==
    LET items == ChildrenNamed(ManifestNode(file), "item")
    IN  \A i \in 1..Len(items) : ItemComplete(items[i])

DeclaredIds ==
    { Unwrap(Attr(DeclaredItems[i], "id")) : i \in 1..Len(DeclaredItems) }
DeclaredItemrefs == ChildrenNamed(SpineNode(epub_file), "itemref")
ItemrefsComplete ==
    \A i \in 1..Len(DeclaredItemrefs) : IsSome(Attr(DeclaredItemrefs[i], "idref"))
AllSections(file) ==
    DescriptorParses(file) /\ HasPackage(file) /\ Lacking(file) = { }

\* C15: open() is atomic.  For a package that has its three sections, an
\* item without id, href or media-type, or an itemref without idref, makes
\* open() fail with XmlTextExtractionError, and then no document and no
\* Navigator exists; otherwise open() succeeds, also when items have no
\* 'properties', and the document holds every declared item and every
\* idref, in order.
C15_OpenAtomic ==
    /\ epub_doc.state # "open" =>
          /\ epub_doc.manifest = EmptyMap /\ epub_doc.spine_ids = << >>
          /\ epub_doc.toc = << >>
          /\ ~has_nav
    /\ (OpenReturned /\ AllSections(epub_file)) =>
          IF ItemsComplete(epub_file) /\ ItemrefsComplete
          THEN /\ epub_doc.state = "open"
               /\ DOMAIN epub_doc.manifest = DeclaredIds
               /\ epub_doc.spine_ids
                    = [i \in 1..Len(DeclaredItemrefs) |->
                          Unwrap(Attr(DeclaredItemrefs[i], "idref"))]
          ELSE Failed("XmlTextExtractionError")

\* open() failed on a manifest whose first item is complete and whose second
\* item has no href
C15_Witness ==
    /\ Failed("XmlTextExtractionError")
    /\ AllSections(epub_file)
    /\ Len(DeclaredItems) = 2
    /\ ItemComplete(DeclaredItems[1])
    /\ ~IsSome(Attr(DeclaredItems[2], "href"))
    /\ ~IsSome(Attr(DeclaredItems[1], "properties"))

\* ------------------------------------------------------------------------
\* Properties of the content read
\* ------------------------------------------------------------------------
ContentRead == has_nav /\ last.op = "read_chapter_content"
\* the document is the one open() built from the file
DocAsOpened ==
    \E hash_first \in HashFirsts, selector_ok \in BOOLEAN :
        epub_doc = DocOf(open(epub_file, hash_first, selector_ok))

\* C16: read_chapter_content on a path that names no archive entry returns
\* ContentReadError carrying the requested path; an entry that cannot be
\* decoded returns the I/O error of the read unchanged; an entry that can
\* returns its text; a failed read leaves the document's manifest, spine and
\* TOC and the Navigator as they were.
C16_ContentReadErrors ==
    ContentRead =>
        /\ last.out.href \notin DOMAIN epub_file.entries =>
              /\ ~last.out.res.ok
              /\ last.out.res.err = "ContentReadError"
              /\ last.out.res.arg = last.out.href
        /\ last.out.href \in DOMAIN epub_file.entries =>
              IF epub_file.entries[last.out.href].utf8
              THEN last.out.res.ok
                   /\ last.out.res.val = epub_file.entries[last.out.href]
              ELSE ~last.out.res.ok /\ last.out.res.err = "Io"
                   /\ last.out.res.arg = << >>
        /\ ~last.out.res.ok => (navigator = last.before /\ DocAsOpened)

\* the chapter the navigator named is not in the archive
C16_Witness ==
    /\ ContentRead /\ Cursor = 0
    /\ last.out.href = << "O", SLASH, "a" >>
    /\ ~last.out.res.ok
    /\ last.out.res.err = "ContentReadError"
    /\ last.out.res.arg = << "O", SLASH, "a" >>

\* ------------------------------------------------------------------------
\* Properties of several Navigators on one document
\* ------------------------------------------------------------------------
Who == last.arg
OnlyCursorDiffers(n, m) ==
    [n EXCEPT !.current_spine_index = m.current_spine_index] = m

\* C17: create_navigator() adds a Navigator with cursor 0 that holds the
\* document's spine, TOC, manifest and root directory, and leaves the
\* document and the Navigators that exist as they are; next, prev and goto
\* change nothing but the cursor of the Navigator they are called on; the
\* queries and the content reads change no Navigator; the document stays as
\* open() built it.
C17_NavigatorsIndependent ==
    /\ epub_doc.state = "open" => DocAsOpened
    /\ \A i \in 1..Len(navigators) :
          /\ navigators[i].spine_ids = epub_doc.spine_ids
          /\ navigators[i].toc = epub_doc.toc
          /\ navigators[i].manifest = epub_doc.manifest
          /\ navigators[i].root_path = epub_doc.root_path
    /\ last.op = "new" =>
          /\ Who = Len(navigators)
          /\ navigators[Who].current_spine_index = 0
          /\ SubSeq(navigators, 1, Who - 1) = last.before
    /\ last.op \in { "next", "prev", "goto" } =>
          /\ Len(navigators) = Len(last.before)
          /\ OnlyCursorDiffers(navigators[Who], last.before[Who])
          /\ \A j \in 1..Len(navigators) : j # Who => navigators[j] = last.before[j]
    /\ last.op \notin { "none", "new", "next", "prev", "goto" } =>
          navigators = last.before

\* the second Navigator moved on while the first stayed at the last chapter
C17_Witness ==
    /\ Len(navigators) = 2 /\ Len(epub_doc.toc) > 0
    /\ last.op = "next" /\ Who = 2 /\ last.ret
    /\ navigators[1].current_spine_index = 1
    /\ last.before[2].current_spine_index = 0
    /\ navigators[2].current_spine_index = 1

\* ------------------------------------------------------------------------
\* Properties of the TocEntry hrefs
\* ------------------------------------------------------------------------
WithoutFragment(r) == Split(r, "#")[1]
\* the directory part of an archive path
DirOf(path) ==
    LET parts == Split(path, SLASH)
    IN  Join(SubSeq(parts, 1, Len(parts) - 1), << SLASH >>)
\* the archive path that reference r, made in the document stored at
\* toc_path, names
ArchivePathOf(toc_path, r) ==
    normalize_path_simple(InDir(DirOf(toc_path), WithoutFragment(r)))
\* the references of the anchors of a nav document that become entries
AnchorRefs(anchors) ==
    LET valid == SelectSeq(anchors,
                     LAMBDA e : /\ IsSome(Attr(e, "href"))
                                /\ Trim(e.text) # Empty
                                /\ Unwrap(Attr(e, "href")) # Empty)
    IN  [i \in 1..Len(valid) |-> Unwrap(Attr(valid[i], "href"))]
\* the references of the navPoints below nodes that become entries
RECURSIVE NavPointRefs(_)
NavPointRefs(nodes) ==
    IF Len(nodes) = 0 THEN << >>
    ELSE LET node == Head(nodes)
             content == SelectSeq(node.children, LAMBDA n : n.name = "content")
             here == IF /\ Len(content) > 0
                        /\ IsSome(Attr(content[1], "src"))
                        /\ Unwrap(Attr(content[1], "src")) # Empty
                        /\ NavPointLabel(node) # Empty
                     THEN << Unwrap(Attr(content[1], "src")) >> ELSE << >>
         IN  (IF node.name = "navPoint" THEN here \o NavPointRefs(node.children)
              ELSE << >>)
             \o NavPointRefs(Tail(nodes))
NcxRefs ==
    NavPointRefs(Unwrap(FindDescendant(Unwrap(epub_file.entries[NcxPath].xml),
                                       "navMap")).children)
TocFromNavDoc == InSeq("nav", io_log.parsed) /\ NavYield # << >>
\* the references behind the entries of the TOC, and the document they are in
TocRefs ==
    IF TocFromNavDoc THEN AnchorRefs(epub_file.entries[NavPath].anchors) ELSE NcxRefs
TocPath == IF TocFromNavDoc THEN NavPath ELSE NcxPath

\* C18: for a nav or NCX document stored at archive path P, the href of the
\* TocEntry made from a relative reference r is the normalized archive path
\* of r resolved against the directory of P, without its fragment, for every
\* root directory.
C18_TocHrefResolved ==
    (epub_doc.state = "open" /\ epub_doc.toc # << >>) =>
        /\ Len(epub_doc.toc) = Len(TocRefs)
        /\ \A i \in 1..Len(epub_doc.toc) :
              ~StartsWith(TocRefs[i], SLASH) =>
                  epub_doc.toc[i].href = ArchivePathOf(TocPath, TocRefs[i])

HasChar(s, c) == \E i \in 1..Len(s) : s[i] = c

\* C19: resolve strips the fragment from every reference, also from one
\* that starts with '/', so that no resolved path contains '#'; a reference
\* that starts with '/' is resolved from the archive root, whatever the base
\* directory.
C19_FragmentStripped ==
    Resolved =>
        /\ ~HasChar(PathResult, "#")
        /\ StartsWith(path_call.arg, SLASH) =>
              PathResult = TrimStartSlashes(WithoutFragment(path_call.arg))

\* the segments of a path behind its leading '/'
Segments(p) ==
    LET body == IF StartsWith(p, SLASH) THEN Tail(p) ELSE p
    IN  IF body = Empty THEN << >> ELSE Split(body, SLASH)
Depth(dir) == Len(Segments(dir))

\* C20: the path functions are total and never underflow.  normalize
\* returns a path whose segments are neither empty nor '.' nor '..', with a
\* leading '/' exactly when the input has one, and a leading '..' that has
\* nothing to remove is dropped; resolve with at least as many leading '..'
\* as the base directory has segments ends at the root, so that "../a"
\* against a one-segment base gives "a".
C20_PathsNeverUnderflow ==
    /\ path_call.fn # "none" => Len(path_call.outs) >= 1
    /\ Normalized =>
          /\ \A i \in 1..Len(Segments(PathResult)) :
                Segments(PathResult)[i] \notin { Empty, DOT, DOTDOT }
          /\ StartsWith(PathResult, SLASH) = StartsWith(path_call.arg, SLASH)
          /\ ~HasChar(PathResult, "\\")
          /\ \A k \in 1..MaxUp :
                path_call.arg = UpRef(k) => PathResult = << "a" >>
          /\ (Len(path_call.arg) >= 3
                /\ SubSeq(path_call.arg, 1, 3) = DOTDOT \o << SLASH >>) =>
                PathResult = normalize_path_simple(
                                 TrimStartSlashes(SubSeq(path_call.arg, 4,
                                                         Len(path_call.arg))))
    /\ Resolved =>
          \A k \in 1..MaxUp :
              (path_call.arg = UpRef(k) /\ k >= Depth(path_call.base)) =>
                  PathResult = << "a" >>

\* a reference with one ".." more than the base directory has segments was
\* resolved
C20_Witness ==
    /\ Resolved
    /\ path_call.base = << "O" >>
    /\ path_call.arg = UpRef(2)
    /\ PathResult = << "a" >>

\* ------------------------------------------------------------------------
\* Properties of Metadata::parse
\* ------------------------------------------------------------------------
Parsed == Unwrap(metadata.parsed).val
Occurrences(name) == ChildrenNamed(metadata.node, name)
FirstText(name) ==
    IF Len(Occurrences(name)) = 0 THEN None ELSE Occurrences(name)[1].text
LastText(name) ==
    IF Len(Occurrences(name)) = 0 THEN None
    ELSE Occurrences(name)[Len(Occurrences(name))].text
FieldsBy(text_of(_)) ==
    [title |-> text_of("title"), creator |-> text_of("creator"),
     language |-> text_of("language"), identifier |-> text_of("identifier"),
     publisher |-> text_of("publisher"), date |-> text_of("date")]

\* C21: Metadata::parse never fails, and each field holds the text of the
\* first child with the field's name, later children of that name changing
\* nothing; a name with no child leaves its field absent and children of
\* other names set nothing.
C21_FirstOccurrence ==
    IsSome(metadata.parsed) =>
        /\ Unwrap(metadata.parsed).ok
        /\ Parsed = FieldsBy(FirstText)

\* what the loop does instead: every child of a name assigns its field, so
\* the last one decides
MetadataLastOccurrence ==
    IsSome(metadata.parsed) =>
        /\ Unwrap(metadata.parsed).ok
        /\ Parsed = FieldsBy(LastText)

\* ------------------------------------------------------------------------
\* Properties of the TOC parsers
\* ------------------------------------------------------------------------
\* open() took the TOC source from the NCX the spine names
NcxServed ==
    /\ epub_doc.state = "open"
    /\ NcxNamed
    /\ InSeq("ncx", io_log.parsed)
    /\ IsSome(epub_file.entries[NcxPath].xml)
    /\ IsSome(FindDescendant(Unwrap(epub_file.entries[NcxPath].xml), "navMap"))
NavMapNode == Unwrap(FindDescendant(Unwrap(epub_file.entries[NcxPath].xml), "navMap"))
\* every navPoint below the navMap, at any depth, in document order
NavPointsBelow(node) ==
    SelectSeq(Tail(Descendants(node)), LAMBDA n : n.name = "navPoint")
NavPointChildren(node) == ChildrenNamed(node, "navPoint")
EntryOfPoint(n) == NavPointEntry(n, BasePathOf(NcxPath), RootPath)
RECURSIVE EntriesOfPoints(_)
EntriesOfPoints(nodes) ==
    IF Len(nodes) = 0 THEN << >>
    ELSE EntryOfPoint(Head(nodes)) \o EntriesOfPoints(Tail(nodes))

\* C22: the TOC read from an NCX holds the entry of every navPoint below the
\* navMap, at any depth and whether or not the navPoints above it gave an
\* entry, in document order: a navPoint before the navPoints nested in it,
\* siblings in source order.
C22_NcxDocumentOrder ==
    NcxServed => epub_doc.toc = EntriesOfPoints(NavPointsBelow(NavMapNode))

\* a navPoint that gave no entry has a child that did, and that child has a
\* child recorded after it
C22_Witness ==
    /\ NcxServed
    /\ \E n \in { NavPointsBelow(NavMapNode)[i] : i \in 1..Len(NavPointsBelow(NavMapNode)) } :
          /\ EntryOfPoint(n) = << >>
          /\ \E c \in { NavPointChildren(n)[i] : i \in 1..Len(NavPointChildren(n)) } :
                /\ EntryOfPoint(c) # << >>
                /\ NavPointChildren(c) # << >>
                /\ epub_doc.toc = EntryOfPoint(c) \o EntryOfPoint(NavPointChildren(c)[1])
                /\ Len(epub_doc.toc) = 2

\* the label text a navPoint carries: the text of the first text element of
\* its first navLabel, nothing when there is none
LabelText(n) ==
    IF ~IsSome(FindChild(n, "navLabel")) THEN Empty
    ELSE IF ~IsSome(FindChild(Unwrap(FindChild(n, "navLabel")), "text")) THEN Empty
    ELSE IF ~IsSome(Unwrap(FindChild(Unwrap(FindChild(n, "navLabel")), "text")).text) THEN Empty
    ELSE Unwrap(Unwrap(FindChild(Unwrap(FindChild(n, "navLabel")), "text")).text)
HasLabelElement(n) ==
    /\ IsSome(FindChild(n, "navLabel"))
    /\ IsSome(FindChild(Unwrap(FindChild(n, "navLabel")), "text"))
SrcOf(n) ==
    IF ~IsSome(FindChild(n, "content")) THEN Empty
    ELSE IF ~IsSome(Attr(Unwrap(FindChild(n, "content")), "src")) THEN Empty
    ELSE Unwrap(Attr(Unwrap(FindChild(n, "content")), "src"))
HrefOf(a) == IF IsSome(Attr(a, "href")) THEN Unwrap(Attr(a, "href")) ELSE Empty
LabelsOf(toc) == [i \in 1..Len(toc) |-> toc[i].label]
TrimmedLabels(points) == [i \in 1..Len(points) |-> Trim(LabelText(points[i]))]
TrimmedTexts(anchors) == [i \in 1..Len(anchors) |-> Trim(anchors[i].text)]
\* open() took the TOC from the nav document
NavServed == epub_doc.state = "open" /\ TocFromNavDoc
NavAnchors == epub_file.entries[NavPath].anchors
AnchorsKept ==
    /\ LabelsOf(epub_doc.toc) =
          TrimmedTexts(SelectSeq(NavAnchors,
                                 LAMBDA a : Trim(a.text) # Empty /\ HrefOf(a) # Empty))
    /\ \A i \in 1..Len(epub_doc.toc) : epub_doc.toc[i].label # Empty

\* C23: the entries of the TOC are those of the anchors or navPoints whose
\* label text and href or src are both non-empty, and each entry's label is
\* the trimmed label text of its anchor or navPoint, which is not empty.
C23_LabelledEntries ==
    /\ NavServed => AnchorsKept
    /\ NcxServed =>
          /\ LabelsOf(epub_doc.toc) =
                TrimmedLabels(SelectSeq(NavPointsBelow(NavMapNode),
                                        LAMBDA n : Trim(LabelText(n)) # Empty
                                                   /\ SrcOf(n) # Empty))
          /\ \A i \in 1..Len(epub_doc.toc) : epub_doc.toc[i].label # Empty

\* the label of a navPoint: the placeholder when it has no navLabel/text
\* element, else its trimmed label text
LabelOrPlaceholder(n) == IF HasLabelElement(n) THEN Trim(LabelText(n)) ELSE SinEtiqueta
PlaceholderLabels(points) == [i \in 1..Len(points) |-> LabelOrPlaceholder(points[i])]

\* C23 as the code has it: a navPoint without navLabel/text element is
\* recorded under the placeholder label when its src is non-empty; every
\* other anchor or navPoint is recorded only with a non-empty trimmed label
\* text and a non-empty href or src, under that trimmed text.
C23_LabelledOrPlaceholder ==
    /\ NavServed => AnchorsKept
    /\ NcxServed =>
          /\ LabelsOf(epub_doc.toc) =
                PlaceholderLabels(SelectSeq(NavPointsBelow(NavMapNode),
                                            LAMBDA n : LabelOrPlaceholder(n) # Empty
                                                       /\ SrcOf(n) # Empty))
          /\ \A i \in 1..Len(epub_doc.toc) : epub_doc.toc[i].label # Empty

\* an NCX gave one entry under the placeholder and one under a trimmed text,
\* and skipped a navPoint with a blank label
C23_Witness ==
    /\ NcxServed
    /\ \E i, j \in 1..Len(epub_doc.toc) :
          /\ epub_doc.toc[i].label = SinEtiqueta
          /\ epub_doc.toc[j].label = << "2" >>
    /\ \E k \in 1..Len(NavPointsBelow(NavMapNode)) :
          /\ HasLabelElement(NavPointsBelow(NavMapNode)[k])
          /\ SrcOf(NavPointsBelow(NavMapNode)[k]) # Empty
          /\ Trim(LabelText(NavPointsBelow(NavMapNode)[k])) = Empty

\* ------------------------------------------------------------------------
\* Properties of the application
\* ------------------------------------------------------------------------
Archive == epub_file.entries
AppCursor(a) == a.navigator.current_spine_index
\* the words of the command line of App a
Words(a) == SplitWhitespace(ToLowercase(Trim(a.command_input)))
\* the Navigator call that key makes App a issue: next, prev, goto or none
AskedOp(a, key) ==
    IF a.mode = "Normal" /\ ~a.show_toc /\ key = KeyOf("Char", "n", "NONE") THEN "next"
    ELSE IF a.mode = "Normal" /\ ~a.show_toc /\ key = KeyOf("Char", "p", "NONE") THEN "prev"
    ELSE IF a.mode = "Command" /\ key.code = "Enter" /\ Words(a) \in { << N_ >>, << NEXT >> }
    THEN "next"
    ELSE IF a.mode = "Command" /\ key.code = "Enter" /\ Words(a) \in { << P_ >>, << PREV >> }
    THEN "prev"
    ELSE IF /\ a.mode = "Command" /\ key.code = "Enter" /\ Len(Words(a)) = 2
            /\ Words(a)[1] \in { G_, GOTO } /\ ParseUsize(Words(a)[2]).ok
    THEN "goto"
    ELSE "none"
\* what that call returns and leaves the Navigator as
AskedCall(a, key) ==
    IF AskedOp(a, key) = "next" THEN next(a.navigator)
    ELSE IF AskedOp(a, key) = "prev" THEN prev(a.navigator)
    ELSE goto(a.navigator, ParseUsize(Words(a)[2]).val)
\* a key event of run_app's loop, a successful move, a move that failed
IsKeyEvent == app.started /\ app'.started /\ app' # app
MoveDone == IsKeyEvent /\ AskedOp(app, app'.key) # "none" /\ AskedCall(app, app'.key).ret
MoveRefused == IsKeyEvent /\ AskedOp(app, app'.key) # "none" /\ ~AskedCall(app, app'.key).ret
NoMove == IsKeyEvent /\ AskedOp(app, app'.key) = "none"
\* whether loading the chapter at nav's cursor fails, and what is shown
LoadFails(nav) ==
    \/ ~current_chapter_href(nav).ok
    \/ ~read_chapter_content(Archive, current_chapter_href(nav).val).ok
ErrorShown(content) ==
    /\ content.kind \in { "Error al obtener la ruta del capitulo: {}",
                          "Error al leer el capitulo: {}" }
    /\ content.err \in { "ManifestItemNotFound", "ContentReadError", "Io" }
ChapterShown(nav) ==
    render_xhtml_to_text(Archive[current_chapter_href(nav).val])

\* C24: a chapter load that fails after a successful move does not end the
\* session: the application does not quit, the cursor is the valid index
\* moved to, the content is an error message; and from a state showing such
\* a message every next, prev and goto still moves the cursor as the
\* Navigator decides and shows the chapter moved to when its load succeeds.
C24_LoadFailureNotFatal ==
    [][ /\ (MoveDone /\ LoadFails(AskedCall(app, app'.key).self)) =>
              /\ ~app'.should_quit
              /\ app'.navigator = AskedCall(app, app'.key).self
              /\ AppCursor(app') < Len(app'.navigator.spine_ids)
              /\ ErrorShown(app'.current_content)
        /\ (MoveDone /\ ErrorShown(app.current_content)) =>
              /\ ~app'.should_quit
              /\ app'.navigator = AskedCall(app, app'.key).self
              /\ ~LoadFails(app'.navigator) =>
                    app'.current_content = ChapterShown(app'.navigator)
      ]_vars

\* prev() left a chapter whose load had failed, since the spine names an id
\* the manifest lacks there, and the chapter before it is shown
C24_Witness ==
    /\ app.started
    /\ app.key = KeyOf("Char", "p", "NONE")
    /\ app.navigator.spine_ids = << "ch1", "ghost", "ch2" >>
    /\ AppCursor(app) = 0
    /\ app.reads = << << "O", SLASH, "a" >> >>
    /\ app.current_content = ChapterShown(app.navigator)
    /\ ~app.should_quit

\* the paths a load of the chapter at nav's cursor reads
ReadsOfLoad(nav) ==
    IF current_chapter_href(nav).ok THEN << current_chapter_href(nav).val >> ELSE << >>
StartUp == ~app.started /\ app'.started

\* C25: exactly one read is issued at start-up, for the chapter at cursor 0,
\* and by every successful next, prev and goto, for the path
\* current_chapter_href() returns at the new cursor; a move that fails and
\* every other event issue no read and leave the content as it is.
C25_OneReadPerMove ==
    [][ /\ StartUp =>
              /\ AppCursor(app') = 0
              /\ current_chapter_href(app'.navigator).ok
              /\ app'.reads = << current_chapter_href(app'.navigator).val >>
        /\ MoveDone =>
              /\ app'.navigator = AskedCall(app, app'.key).self
              /\ current_chapter_href(app'.navigator).ok
              /\ app'.reads = << current_chapter_href(app'.navigator).val >>
        /\ (MoveRefused \/ NoMove) =>
              /\ app'.reads = << >>
              /\ app'.current_content = app.current_content
              /\ app'.navigator = app.navigator
      ]_vars

\* C25 as the code has it: the read is issued when current_chapter_href()
\* returns a path, and no read is issued when it returns an error.
C25_OneReadPerLookup ==
    [][ /\ StartUp =>
              /\ AppCursor(app') = 0
              /\ app'.reads = ReadsOfLoad(app'.navigator)
        /\ MoveDone =>
              /\ app'.navigator = AskedCall(app, app'.key).self
              /\ app'.reads = ReadsOfLoad(app'.navigator)
        /\ (MoveRefused \/ NoMove) =>
              /\ app'.reads = << >>
              /\ app'.current_content = app.current_content
              /\ app'.navigator = app.navigator
      ]_vars

\* the command g 3 moved to the third chapter and its entry was asked for
C25_Witness ==
    /\ app.started
    /\ app.key.code = "Enter"
    /\ AppCursor(app) = 2
    /\ app.status_message = Msg("Capitulo {} de {}", << 3, 3 >>)
    /\ app.reads = << << "O", SLASH >> \o Ch2Href >>

\* ------------------------------------------------------------------------
\* next() and prev() one after the other
\* ------------------------------------------------------------------------
\* the step is a call of op on the Navigator
NavStep(op) == has_nav /\ last'.op = op /\ last'.before = navigator
MovedBy(d) ==
    /\ navigator'.current_spine_index = Cursor + d
    /\ [navigator' EXCEPT !.current_spine_index = Cursor] = navigator

\* C26: a prev() right after a next() that returned true returns true and
\* restores the Navigator as it was before the next(), and a next() right
\* after a prev() that returned true does the same; next() returns true
\* exactly when it moved the cursor up by one, prev() exactly when it moved
\* it down by one, and neither changes anything when it returns false.
C26_NextPrevInverse ==
    [][ /\ (NavStep("prev") /\ last.op = "next" /\ last.ret) =>
              (last'.ret /\ navigator' = last.before)
        /\ (NavStep("next") /\ last.op = "prev" /\ last.ret) =>
              (last'.ret /\ navigator' = last.before)
        /\ NavStep("next") =>
              /\ last'.ret = (navigator' # navigator)
              /\ last'.ret => MovedBy(1)
        /\ NavStep("prev") =>
              /\ last'.ret = (navigator' # navigator)
              /\ last'.ret => MovedBy(-1)
      ]_vars

\* a single prev() undid a move to the second chapter
C26_Witness ==
    /\ has_nav /\ SpineLen >= 2
    /\ last.op = "prev" /\ last.ret
    /\ run = [op |-> "prev", start |-> 1, len |-> 1]
    /\ Cursor = 0
    /\ last.before = [navigator EXCEPT !.current_spine_index = 1]

\* C27: whatever keys were handled, the table of contents and the metadata
\* view are not both shown, and after Enter ran a command the application
\* is in Normal mode with an empty command line.
C27_ViewsExclusive ==
    app.started =>
        /\ ~(app.show_toc /\ app.show_metadata)
        /\ app.key.code = "Enter" =>
              (app.mode = "Normal" /\ app.command_input = Empty)

\* Enter ran the command t and the table of contents is shown from its top
C27_Witness ==
    /\ app.started
    /\ app.key.code = "Enter"
    /\ app.show_toc /\ ~app.show_metadata
    /\ app.mode = "Normal" /\ app.command_input = Empty
    /\ app.toc_scroll_offset = 0

====
